---- MODULE Spec2Model ----
(***************************************************************************)
(* ZenMon Agent v2.0: credential lifecycle (TokenManager), the requests   *)
(* of AuthenticatedApiClient, and the agent process (main, ZenMonAgent).   *)
(*                                                                         *)
(* Spec: a caller of TokenManager and send_metrics.  ClientSpec: a caller  *)
(* of the operations that send the bearer token.  AgentSpec: the agent     *)
(* process from main() to its exit, with the shutdown signal.              *)
(*                                                                         *)
(* Time is counted in whole seconds.  A caller invokes the public          *)
(* operations one after another; the remote service is the environment     *)
(* and answers every request with any response of a small response set.    *)
(* An operation is executed in segments that end at the return of the      *)
(* operation or right after one network exchange of send_metrics.          *)
(***************************************************************************)
EXTENDS Integers, Sequences, FiniteSets, TLC

\* ------------------------------------------------------------------ bounds
\* number of top-level operation calls made in one behaviour
MaxCalls == 2
\* nesting depth at which a further recursive send_metrics call raises
\* RecursionError (the interpreter's recursion limit, scaled down)
MaxDepth == 3

\* --------------------------------------------------------- program constants
\* AgentConfig.token_refresh_margin (seconds)
token_refresh_margin == 300
\* AgentConfig.timeout (seconds)
timeout == 30
\* timedelta(minutes=480) in TokenManager.authenticate
TokenLifetimeMinutes == 480
TokenLifetime == TokenLifetimeMinutes * 60
\* ZenMonAgent.heartbeat_interval = timedelta(minutes=5)
HeartbeatIntervalMinutes == 5
heartbeat_interval == HeartbeatIntervalMinutes * 60
\* an agent constructed with a last_heartbeat that is not yet due
InitialHeartbeatAgeShort == HeartbeatIntervalMinutes - 1

\* ZenMonAgent.__init__: last_heartbeat = now - 10 minutes
InitialHeartbeatAgeMinutes == 10
\* ZenMonAgent.__init__: last_config_refresh = now - 15 minutes
InitialConfigAgeMinutes == 15

\* AgentConfig.collection_interval (seconds)
collection_interval == 120
\* ZenMonAgent.config_refresh_interval = timedelta(minutes=10)
ConfigRefreshIntervalMinutes == 10
config_refresh_interval == ConfigRefreshIntervalMinutes * 60
\* sleep_step of _wait_for_next_cycle (seconds)
sleep_step == 1

\* ------------------------------------------------------------ value domains
\* Optional[...] : None, or a one-element tuple holding the value
None == << >>
Some(x) == <<x>>

\* JSON null as the value of a response field
JsonNull == "null"
\* str(x) as used by an f-string
Str(x) == IF x = JsonNull THEN "None" ELSE x

\* bodies of a login answer that carry every field: the token is a string,
\* or JSON null; secs is the time the exchange takes
LoginBodies ==
  {[token |-> "tokA", id |-> 1, login |-> "admin", secs |-> 0],
   [token |-> "tokB", id |-> 2, login |-> "agent", secs |-> 1],
   [token |-> JsonNull, id |-> 1, login |-> "admin", secs |-> 0]}

\* the metrics lists handed to send_metrics (metric_type_id of each record)
Batches == {<< >>, <<1, 2>>}

\* time the caller lets pass before its next call
Delays == {0, TokenLifetime - token_refresh_margin - 1,
           TokenLifetime - token_refresh_margin, TokenLifetime}
\* duration in whole seconds of the network exchange that ends with answer r
elapsed(r) == r.secs

\* answers of POST /login.  exc: exception raised by session.post; shape:
\* form of the JSON body ("full" has token, user.id and user.login); secs:
\* whole seconds the exchange takes (a timeout takes the whole timeout)
LoginResponses ==
       {[exc |-> "none", status_code |-> 200, shape |-> "full",
         token |-> b.token, id |-> b.id, login |-> b.login, secs |-> b.secs] :
            b \in LoginBodies}
  \cup {[exc |-> "none", status_code |-> 200, shape |-> s,
         token |-> "", id |-> 0, login |-> "", secs |-> 0] :
            s \in {"no_user_id"}}
  \cup {[exc |-> "none", status_code |-> 401, shape |-> "not_json",
         token |-> "", id |-> 0, login |-> "", secs |-> 0]}
  \cup {[exc |-> "Timeout", status_code |-> 0, shape |-> "not_json",
         token |-> "", id |-> 0, login |-> "", secs |-> timeout]}

\* answers of POST /agent/metrics/batch
MetricsResponses ==
       {[exc |-> "none", status_code |-> c, secs |-> 0] :
            c \in {200, 201, 401, 422, 500}}
  \cup {[exc |-> "Timeout", status_code |-> 0, secs |-> timeout],
        [exc |-> "ConnectionError", status_code |-> 0, secs |-> 0]}

VARIABLES
  now,                 \* datetime.now(), seconds
  current_token,       \* TokenManager.current_token : Optional[AuthToken]
  auth_header,         \* TokenManager.session.headers['Authorization']
  last_heartbeat,      \* ZenMonAgent.last_heartbeat
  last_config_refresh, \* ZenMonAgent.last_config_refresh
  pc,                  \* position of the thread of control
  op,                  \* operation the caller invoked last
  metrics,             \* argument of the running send_metrics call
  depth,               \* number of nested send_metrics frames
  result,              \* return value of the operation invoked last
  log,                 \* calls and network exchanges of the operation invoked last
  pre,                 \* state at the moment the operation was invoked
  calls,               \* number of operations invoked so far
  argv,                \* form of the command line of the process
  exit_status,         \* exit status of the process, None while it runs
  running,             \* ZenMonAgent.running
  config,              \* AgentConfig fields that the API can change
  total_slept,         \* local of _wait_for_next_cycle
  ret_pc,              \* position at which the running client operation returns
  hist                 \* history of the agent process (observation only)

vars == <<now, current_token, auth_header, last_heartbeat, last_config_refresh,
          pc, op, metrics, depth, result, log, pre, calls,
          argv, exit_status, running, config, total_slept, ret_pc,
          hist>>

agent == <<last_heartbeat, last_config_refresh,
           argv, exit_status, running, config, total_slept, ret_pc,
           hist>>

Ops == {"authenticate", "is_token_valid", "refresh_token_if_needed", "send_metrics"}

Snapshot(t) == [now |-> t, current_token |-> current_token, auth_header |-> auth_header,
                last_heartbeat |-> last_heartbeat,
                last_config_refresh |-> last_config_refresh]

\* AgentConfig as constructed by main(): the fields update_from_api can set
DefaultConfig ==
  [collection_interval |-> collection_interval,
   enable_cpu_monitoring |-> TRUE,
   enable_ram_monitoring |-> TRUE,
   enable_disk_monitoring |-> TRUE,
   enable_network_monitoring |-> TRUE]

\* nothing has happened in the agent process
NoHistory ==
  [started |-> "no",      \* outcome of the authenticate() call of start()
   start_config |-> "no", \* outcome of the configuration pull of start()
   run_start |-> 0,       \* time at which running was set to True
   cycles |-> 0,          \* loop iterations begun
   cycle_start |-> 0,     \* time at which the iteration begun last began
   wait_start |-> 0,      \* time at which the wait begun last began
   hb_calls |-> 0,        \* send_heartbeat() calls made
   hb_last |-> "none",    \* outcome of the send_heartbeat() call made last
   signal_at |-> None,    \* time and position of the first shutdown signal
   raised |-> None,       \* iteration of the exception raised last
   served |-> None,       \* non-empty configuration object the agent got last
   refresh_last |-> "none", \* outcome of the configuration refresh made last
   invoked |-> {},        \* collectors called in the running iteration
   fetch |-> None,        \* the configuration fetch made last: its time,
                          \* whether it succeeded, and the seconds since the
                          \* fetch before it if both succeeded
   faults |-> 0]          \* faults in the steps completed

\* log entries
NoBody == [shape |-> "none", token |-> "", id |-> 0, login |-> ""]
LoginEvent(r, ret) ==
  [ev |-> "authenticate", exc |-> r.exc, status_code |-> r.status_code, ok |-> ret,
   body |-> [shape |-> r.shape, token |-> r.token, id |-> r.id, login |-> r.login]]
GateEvent(ret) ==
  [ev |-> "refresh_token_if_needed", exc |-> "none", status_code |-> 0, ok |-> ret,
   body |-> NoBody]
PostEvent(r, ret) ==
  [ev |-> "post_metrics", exc |-> r.exc, status_code |-> r.status_code, ok |-> ret,
   body |-> NoBody]
\* an exception of class e leaves the operation or step in progress
RaiseEvent(e) ==
  [ev |-> "raise", exc |-> e, status_code |-> 0, ok |-> FALSE, body |-> NoBody]

\* ------------------------------------------------------------- TokenManager
\* authenticate(): tok, hdr the token and header before the call, r the
\* answer of the login request, t the time at which the answer arrives
\* authenticate() that fills the identity of an existing token in place
\* instead of replacing the token
authenticate_merge(tok, hdr, r, t) ==
  LET failed == [current_token |-> tok, auth_header |-> hdr, ret |-> FALSE]
  IN IF r.exc # "none" THEN failed
     ELSE IF r.status_code = 200
       THEN IF r.shape # "full"
              THEN failed
              ELSE [current_token |->
                       Some([token |-> r.token, expires_at |-> t + TokenLifetime,
                             user_id |-> IF tok = None THEN r.id ELSE tok[1].user_id,
                             username |-> r.login]),
                    auth_header |-> <<"Bearer", Str(r.token)>>,
                    ret |-> r.token # JsonNull]
       ELSE failed

authenticate(tok, hdr, r, t) ==
  LET failed == [current_token |-> tok, auth_header |-> hdr, ret |-> FALSE]
  IN IF r.exc # "none" THEN failed
     ELSE IF r.status_code = 200
       THEN IF r.shape # "full"
              THEN failed
              ELSE [current_token |->
                       Some([token |-> r.token, expires_at |-> t + TokenLifetime,
                             user_id |-> r.id, username |-> r.login]),
                    auth_header |-> <<"Bearer", Str(r.token)>>,
                    \* token_string[:20] raises TypeError on a token that is
                    \* not subscriptable; caught by "except Exception"
                    ret |-> r.token # JsonNull]
       ELSE failed

\* is_token_valid() comparing with >= instead of >
is_token_valid_ge(tok, t) ==
  IF tok = None THEN FALSE
  ELSE LET time_until_expiry == tok[1].expires_at - t
       IN time_until_expiry >= token_refresh_margin

is_token_valid(tok, t) ==
  IF tok = None THEN FALSE
  ELSE LET time_until_expiry == tok[1].expires_at - t
       IN time_until_expiry > token_refresh_margin

\* the test of refresh_token_if_needed() that leads to authenticate():
\* minutes_left <= margin / 60 with minutes_left = seconds / 60
needs_refresh_lt(tok, t) ==
  IF tok = None THEN TRUE
  ELSE LET time_until_expiry == tok[1].expires_at - t
       IN time_until_expiry < token_refresh_margin

\* the test of refresh_token_if_needed() looking only for a missing token
needs_refresh_no_expiry(tok, t) == tok = None

needs_refresh(tok, t) ==
  IF tok = None THEN TRUE
  ELSE LET time_until_expiry == tok[1].expires_at - t
       IN time_until_expiry <= token_refresh_margin

\* the f-string "Current token: {token[:20]}...{token[-10:]}" of
\* refresh_token_if_needed(), which is in no try block: the exception it
\* raises on the token string s, "none" if it raises none
slice_error(s) == IF s = JsonNull THEN "TypeError" ELSE "none"

\* refresh_token_if_needed() called at time t; r the answer of the login
\* request in case one is made; exc the exception that leaves the call
refresh_token_if_needed(tok, hdr, r, t) ==
  IF needs_refresh(tok, t)
    THEN IF tok # None /\ slice_error(tok[1].token) # "none"
           THEN [current_token |-> tok, auth_header |-> hdr, ret |-> FALSE,
                 exc |-> slice_error(tok[1].token), now |-> t,
                 log |-> <<RaiseEvent(slice_error(tok[1].token))>>]
           ELSE LET a == authenticate(tok, hdr, r, t + elapsed(r))
                IN [current_token |-> a.current_token,
                    auth_header |-> a.auth_header,
                    ret |-> a.ret, exc |-> "none", now |-> t + elapsed(r),
                    log |-> <<GateEvent(a.ret), LoginEvent(r, a.ret)>>]
    ELSE [current_token |-> tok, auth_header |-> hdr, ret |-> TRUE,
          exc |-> "none", now |-> t, log |-> <<GateEvent(TRUE)>>]

\* the directory list of get_monitored_directories when the API gives none
fallback_directories == <<"/root", "/var", "/tmp", "/home", "/usr">>

\* the except clause that catches an exception leaving the operation of
\* the API client that returns to rp: the position where control goes on
catch(rp) ==
  CASE rp = "start_config" -> "exited"
    [] rp = "heartbeat_done" -> "refresh_check"
    [] rp = "refresh_config" -> "collect"
    [] rp = "directories_done" -> "directories_done"
    [] rp = "wait_for_next_cycle" -> "wait_for_next_cycle"
    [] OTHER -> rp


\* ------------------------------------------------- AuthenticatedApiClient
\* send_metrics without the empty-list shortcut
skip_empty_never(m) == FALSE

\* "if not metrics" at the head of send_metrics
skip_empty(m) == m = << >>

\* send_metrics that logs the failed gate and goes on to the POST
after_gate_ignored(ret) == "post_metrics"

\* "if not self.token_manager.refresh_token_if_needed(): return False"
after_gate(ret) == IF ret THEN "post_metrics" ELSE "return_false"

\* send_metrics without the 401 branch
post_outcome_no_retry(r) ==
  IF r.exc # "none" THEN "return_false"
  ELSE IF r.status_code \in {200, 201} THEN "return_true"
  ELSE "return_false"

\* send_metrics that re-authenticates on 401 and on 422
post_outcome_retry_422(r) ==
  IF r.exc # "none" THEN "return_false"
  ELSE IF r.status_code \in {200, 201} THEN "return_true"
  ELSE IF r.status_code \in {401, 422} THEN "reauth"
  ELSE "return_false"

\* send_metrics that re-authenticates on every status but 200, 201 and 422
post_outcome_retry_other(r) ==
  IF r.exc # "none" THEN "return_false"
  ELSE IF r.status_code \in {200, 201} THEN "return_true"
  ELSE IF r.status_code = 422 THEN "return_false"
  ELSE "reauth"

\* the branch send_metrics takes on the answer r of the metrics POST
post_outcome(r) ==
  IF r.exc # "none" THEN "return_false"
  ELSE IF r.status_code \in {200, 201} THEN "return_true"
  ELSE IF r.status_code = 401 THEN "reauth"
  ELSE IF r.status_code = 422 THEN "return_false"
  ELSE "return_false"

\* "return self.send_metrics(metrics)" from a frame at nesting depth k: the
\* call is made unless the recursion limit is reached, in which case the
\* RecursionError is caught by "except Exception" and False is returned
recurse(k) == IF k < MaxDepth THEN "send_metrics" ELSE "return_false"

\* ----------------------------------------------------------------- caller
Init ==
  /\ now = 0
  /\ current_token = None
  /\ auth_header = None
  /\ last_heartbeat = 0 - InitialHeartbeatAgeMinutes * 60
  /\ last_config_refresh = 0 - InitialConfigAgeMinutes * 60
  /\ pc = "idle"
  /\ op = "none"
  /\ metrics = << >>
  /\ depth = 0
  /\ result = FALSE
  /\ log = << >>
  /\ pre = Snapshot(0)
  /\ calls = 0
  /\ argv = "ok"
  /\ exit_status = None
  /\ running = FALSE
  /\ config = DefaultConfig
  /\ total_slept = 0
  /\ ret_pc = "idle"
  /\ hist = NoHistory

\* the caller lets d seconds pass and invokes operation o
Call(o, d, n) ==
  /\ pc = "idle"
  /\ calls < MaxCalls
  /\ calls' = calls + 1
  /\ now' = now + d
  /\ op' = o
  /\ pc' = o
  /\ metrics' = IF o = "send_metrics" THEN n ELSE << >>
  /\ depth' = IF o = "send_metrics" THEN 1 ELSE 0
  /\ result' = FALSE
  /\ log' = << >>
  /\ pre' = Snapshot(now + d)
  /\ UNCHANGED <<current_token, auth_header, agent>>

Return(v) ==
  /\ pc' = ret_pc
  /\ result' = v
  /\ depth' = 0

\* an exception leaves the running operation of the API client; the
\* handler of collect_storage_metrics() takes the fallback directories
Raised ==
  /\ pc' = catch(ret_pc)
  /\ result' = IF ret_pc = "directories_done" THEN fallback_directories
               ELSE result
  /\ depth' = 0

Authenticate(r) ==
  /\ pc = "authenticate"
  /\ LET a == authenticate(current_token, auth_header, r, now + elapsed(r))
     IN /\ current_token' = a.current_token
        /\ auth_header' = a.auth_header
        /\ log' = Append(log, LoginEvent(r, a.ret))
        /\ Return(a.ret)
  /\ now' = now + elapsed(r)
  /\ UNCHANGED <<agent, op, metrics, pre, calls>>

IsTokenValid ==
  /\ pc = "is_token_valid"
  /\ Return(is_token_valid(current_token, now))
  /\ UNCHANGED <<now, current_token, auth_header, agent, op, metrics, log, pre, calls>>

RefreshTokenIfNeeded(r) ==
  /\ pc = "refresh_token_if_needed"
  /\ LET g == refresh_token_if_needed(current_token, auth_header, r, now)
     IN /\ current_token' = g.current_token
        /\ auth_header' = g.auth_header
        /\ now' = g.now
        /\ log' = log \o g.log
        /\ IF g.exc = "none" THEN Return(g.ret) ELSE Raised
  /\ UNCHANGED <<agent, op, metrics, pre, calls>>

\* control leaves the running segment at label l
Goto(l) ==
  IF l = "return_true" THEN Return(TRUE)
  ELSE IF l = "return_false" THEN Return(FALSE)
  ELSE /\ pc' = l
       /\ result' = result
       /\ depth' = IF l = "send_metrics" THEN depth + 1 ELSE depth

\* send_metrics up to the metrics POST: empty check and token gate
SendMetricsEntry(r) ==
  /\ pc = "send_metrics"
  /\ IF skip_empty(metrics)
       THEN /\ Return(TRUE)
            /\ UNCHANGED <<now, current_token, auth_header, log>>
       ELSE LET g == refresh_token_if_needed(current_token, auth_header, r, now)
            IN /\ current_token' = g.current_token
               /\ auth_header' = g.auth_header
               /\ now' = g.now
               /\ log' = log \o g.log
               \* the recursive call is inside the try of the calling frame
               /\ IF g.exc = "none" THEN Goto(after_gate(g.ret))
                  ELSE IF depth > 1 THEN Return(FALSE)
                  ELSE Raised
  /\ UNCHANGED <<agent, op, metrics, pre, calls>>

\* send_metrics: the metrics POST and the dispatch on its answer
SendMetricsPost(r) ==
  /\ pc = "post_metrics"
  /\ now' = now + elapsed(r)
  /\ log' = Append(log, PostEvent(r, post_outcome(r) = "return_true"))
  /\ Goto(post_outcome(r))
  /\ UNCHANGED <<current_token, auth_header, agent, op, metrics, pre, calls>>

\* send_metrics, 401 branch: authenticate() and the recursive call
SendMetricsReauth(r) ==
  /\ pc = "reauth"
  /\ LET a == authenticate(current_token, auth_header, r, now + elapsed(r))
     IN /\ current_token' = a.current_token
        /\ auth_header' = a.auth_header
        /\ log' = Append(log, LoginEvent(r, a.ret))
        /\ Goto(IF a.ret THEN recurse(depth) ELSE "return_false")
  /\ now' = now + elapsed(r)
  /\ UNCHANGED <<agent, op, metrics, pre, calls>>

\* the answers the login request of a token gate can get at time t: any
\* answer if the gate makes the request, one placeholder if it makes none
GateAnswers(skip, tok, t) ==
  IF ~skip /\ needs_refresh(tok, t) THEN LoginResponses
  ELSE {CHOOSE r \in LoginResponses : r.exc = "Timeout"}

Next ==
  \/ \E o \in Ops \ {"send_metrics"}, d \in Delays : Call(o, d, << >>)
  \/ \E d \in Delays, n \in Batches : Call("send_metrics", d, n)
  \/ \E r \in LoginResponses : Authenticate(r)
  \/ IsTokenValid
  \/ \E r \in GateAnswers(FALSE, current_token, now) : RefreshTokenIfNeeded(r)
  \/ \E r \in GateAnswers(skip_empty(metrics), current_token, now) : SendMetricsEntry(r)
  \/ \E r \in MetricsResponses : SendMetricsPost(r)
  \/ \E r \in LoginResponses : SendMetricsReauth(r)

Spec == Init /\ [][Next]_vars

\* ================================================================== agent
\* The agent process: main(), ZenMonAgent.start() with its loop, the
\* operations of the API client the loop calls, and the shutdown signal.

\* ---------------------------------------------------------------- bounds
\* number of loop iterations the agent begins in one behaviour
MaxCycles == 3
\* number of answers of the environment in one behaviour of the agent
\* that are not the plain success
MaxFaults == 1

\* --------------------------------------------------------------- domains
\* forms of the command line: four parameters with an integer host id, a
\* wrong number of parameters, a host id that int() rejects
ArgvForms == {"ok", "wrong_count", "bad_host_id"}

\* collect_cpu_metric samples for 10 * 0.1 + 0.5 + 0.3 + 5 * 0.05 seconds
CpuSampleSecs == 2

\* JSON object answered by GET /agent/configuration/{host_id}: each of the
\* keys update_from_api reads is absent (None) or present; other tells
\* whether the object has any further key
Payload(i, c, r, d, n, o) ==
  [data_collection_interval |-> i, enable_cpu_monitoring |-> c,
   enable_ram_monitoring |-> r, enable_disk_monitoring |-> d,
   enable_network_monitoring |-> n, other |-> o]
ConfigPayloads ==
  {Payload(Some(120), Some(TRUE), Some(TRUE), Some(TRUE), Some(TRUE), TRUE),
   Payload(None, None, None, None, None, FALSE),
   Payload(Some(60), None, None, None, None, FALSE),
   Payload(Some(120), Some(TRUE), Some(TRUE), Some(FALSE), Some(FALSE), TRUE),
   Payload(Some(60), Some(FALSE), Some(FALSE), Some(FALSE), Some(FALSE),
           FALSE)}

\* answers of GET /agent/configuration/{host_id}
ConfigResponses ==
       {[exc |-> "none", status_code |-> 200, secs |-> 0, data |-> p] :
            p \in ConfigPayloads}
  \cup {[exc |-> "none", status_code |-> 500, secs |-> 0,
         data |-> Payload(None, None, None, None, None, FALSE)],
        [exc |-> "ConnectionError", status_code |-> 0, secs |-> 0,
         data |-> Payload(None, None, None, None, None, FALSE)]}

\* answers of POST /agent/heartbeat/{host_id}
HeartbeatResponses ==
       {[exc |-> "none", status_code |-> c, secs |-> 0] :
            c \in {200, 401, 500}}
  \cup {[exc |-> "Timeout", status_code |-> 0, secs |-> timeout]}

\* answers of GET /agent/monitored-directories/{host_id}
DirectoriesResponses ==
       {[exc |-> "none", status_code |-> 200, secs |-> 0, directories |-> d] :
            d \in {<<"/data", "/var">>, << >>}}
  \cup {[exc |-> "none", status_code |-> 500, secs |-> 0, directories |-> << >>]}

\* the directories of the host that exist (os.path.exists) and whose usage
\* can be read (_collect_single_storage_metric returns a record)
ExistingDirectories == {{"/root", "/var", "/tmp", "/home", "/usr", "/data"},
                        {"/var", "/usr"}}

\* the collectors among CPU (1), RAM (2), network (3) that fail in a cycle
CollectorFailures == {{}, {1}, {1, 2, 3}}

\* log entry of a bearer-authenticated request other than the metrics POST
RequestEvent(name, r, ret) ==
  [ev |-> name, exc |-> r.exc, status_code |-> r.status_code, ok |-> ret,
   body |-> NoBody]

\* ----------------------------------------------------------- AgentConfig
\* dict.get(key, default) on one key of the answered object
get(p, key, default) == IF p[key] = None THEN default ELSE p[key][1]

\* truth value of the answered object: a dict is true unless it is empty
truthy(p) ==
  \/ p.other
  \/ \E k \in DOMAIN p \ {"other"} : p[k] # None

\* update_from_api that stops after the interval is assigned
update_from_api_interval_only(cfg, p) ==
  [cfg EXCEPT !.collection_interval = get(p, "data_collection_interval", 120)]

\* update_from_api that keeps the value of a field whose key is absent
update_from_api_merge(cfg, p) ==
  [collection_interval |->
     get(p, "data_collection_interval", cfg.collection_interval),
   enable_cpu_monitoring |->
     get(p, "enable_cpu_monitoring", cfg.enable_cpu_monitoring),
   enable_ram_monitoring |->
     get(p, "enable_ram_monitoring", cfg.enable_ram_monitoring),
   enable_disk_monitoring |->
     get(p, "enable_disk_monitoring", cfg.enable_disk_monitoring),
   enable_network_monitoring |->
     get(p, "enable_network_monitoring", cfg.enable_network_monitoring)]

\* AgentConfig.update_from_api: the configuration after the call
update_from_api(cfg, p) ==
  [collection_interval |-> get(p, "data_collection_interval", 120),
   enable_cpu_monitoring |-> get(p, "enable_cpu_monitoring", TRUE),
   enable_ram_monitoring |-> get(p, "enable_ram_monitoring", TRUE),
   enable_disk_monitoring |-> get(p, "enable_disk_monitoring", TRUE),
   enable_network_monitoring |-> get(p, "enable_network_monitoring", TRUE)]

\* update_from_api that compares the interval only
config_changed_interval_only(old, new) ==
  old.collection_interval # new.collection_interval

\* AgentConfig.update_from_api: the value returned, old the fields before
\* the call and new the fields after it
config_changed(old, new) ==
  \/ old.collection_interval # new.collection_interval
  \/ old.enable_cpu_monitoring # new.enable_cpu_monitoring
  \/ old.enable_ram_monitoring # new.enable_ram_monitoring
  \/ old.enable_disk_monitoring # new.enable_disk_monitoring
  \/ old.enable_network_monitoring # new.enable_network_monitoring

\* ----------------------------------------------------------- ZenMonAgent
\* start() that goes on whatever authenticate() returned
after_login_ignored(ret) == "get_agent_configuration"

\* start(): where control goes on the value returned by authenticate()
after_login(ret) == IF ret THEN "get_agent_configuration" ELSE "exited"

\* a caller that falls back to the defaults when no configuration came
config_loaded_or_reset(cfg, api) ==
  IF api # None /\ truthy(api[1]) THEN update_from_api(cfg, api[1])
  ELSE DefaultConfig

\* the configuration after "if api_config: update_from_api(api_config)";
\* api the value returned by get_agent_configuration()
config_loaded(cfg, api) ==
  IF api # None /\ truthy(api[1]) THEN update_from_api(cfg, api[1]) ELSE cfg

\* start() that gives up when the configuration could not be loaded
after_start_config_fatal(api) ==
  IF api # None /\ truthy(api[1]) THEN "loop" ELSE "exited"

\* start(): where control goes after the configuration pull, whose both
\* branches fall through to the loop
after_start_config(api) == "loop"

\* _refresh_config_if_needed: last_config_refresh after the call made at t
config_refreshed(last, api, t) ==
  IF api # None /\ truthy(api[1]) THEN t ELSE last

\* _should_send_heartbeat() at time t
should_send_heartbeat(t, last) == t - last >= heartbeat_interval

\* _send_heartbeat that notes the time of every attempt
heartbeat_sent_always(last, success, t) == t

\* _send_heartbeat: last_heartbeat after send_heartbeat() returned success
heartbeat_sent(last, success, t) == IF success THEN t ELSE last

\* _should_refresh_config() at time t
should_refresh_config(t, last) == t - last >= config_refresh_interval

\* a loop whose "except Exception" clause goes on with the next iteration
\* without the wait
handler_no_wait(p, rp) ==
  CASE p = "heartbeat_done" -> "refresh_check"
    [] p = "refresh_config" -> "collect"
    [] p = "directories_done" -> "collected"
    [] p \in {"collect", "collected"} -> "loop"
    [] p = "refresh_check" -> "loop"
    [] OTHER -> catch(rp)

\* a loop whose try statement has no "except Exception" clause
handler_no_catch_all(p, rp) ==
  CASE p = "heartbeat_done" -> "refresh_check"
    [] p = "refresh_config" -> "collect"
    [] p = "directories_done" -> "collected"
    [] p \in {"collect", "collected"} -> "wait_for_next_cycle"
    [] p = "refresh_check" -> "exited"
    [] OTHER -> catch(rp)

\* the except clause that catches an exception raised at position p of the
\* loop body: the position where control goes on.  _send_heartbeat,
\* _refresh_config_if_needed and _collect_and_send_metrics each have their
\* own clause, collect_storage_metrics returns [] from its clause, and what
\* is raised outside these is caught by the clause of the loop, which
\* calls _wait_for_next_cycle(); rp the return position of the operation
\* of the API client in progress, if any
handler(p, rp) ==
  CASE p = "heartbeat_done" -> "refresh_check"
    [] p = "refresh_config" -> "collect"
    [] p = "directories_done" -> "collected"
    [] p \in {"collect", "collected"} -> "wait_for_next_cycle"
    [] p = "refresh_check" -> "wait_for_next_cycle"
    [] OTHER -> catch(rp)

\* a loop that does not look at the running flag
while_running_forever(run) == TRUE

\* "while self.running" of start()
while_running(run) == run

\* a wait that does not look at the running flag
keep_waiting_deaf(slept, interval, run) == slept < interval

\* a wait that ends one sleep step early
keep_waiting_short(slept, interval, run) ==
  slept + sleep_step < interval /\ run

\* loop condition of _wait_for_next_cycle
keep_waiting(slept, interval, run) == slept < interval /\ run

\* ------------------------------------------------ SystemMetricsCollector
\* collect_all_metrics: the collectors called, 1 CPU, 2 RAM, 3 network,
\* 4 storage
collectors_invoked(cfg) ==
       (IF cfg.enable_cpu_monitoring THEN {1} ELSE {})
  \cup (IF cfg.enable_ram_monitoring THEN {2} ELSE {})
  \cup (IF cfg.enable_network_monitoring THEN {3} ELSE {})
  \cup (IF cfg.enable_disk_monitoring THEN {4} ELSE {})

\* collect_all_metrics that takes the CPU record whatever the flag is
local_metrics_cpu_always(cfg, f) ==
     (IF 1 \notin f THEN <<1>> ELSE << >>)
  \o (IF cfg.enable_ram_monitoring /\ 2 \notin f THEN <<2>> ELSE << >>)
  \o (IF cfg.enable_network_monitoring /\ 3 \notin f THEN <<3>> ELSE << >>)

\* metric_type_id of the metrics collect_all_metrics gets from the CPU, RAM
\* and network collectors; f the collectors that return None
local_metrics(cfg, f) ==
     (IF cfg.enable_cpu_monitoring /\ 1 \notin f THEN <<1>> ELSE << >>)
  \o (IF cfg.enable_ram_monitoring /\ 2 \notin f THEN <<2>> ELSE << >>)
  \o (IF cfg.enable_network_monitoring /\ 3 \notin f THEN <<3>> ELSE << >>)

\* collect_storage_metrics: the directory list used, given the API's list
monitored(api_directories) ==
  IF api_directories # << >> THEN api_directories ELSE fallback_directories

\* collect_storage_metrics with the base id of the storage metrics at 3
RECURSIVE storage_metrics_from_3(_, _, _)
storage_metrics_from_3(directories, existing, k) ==
  IF k > Len(directories) THEN << >>
  ELSE (IF directories[k] \in existing THEN <<3 + (k - 1)>> ELSE << >>)
       \o storage_metrics_from_3(directories, existing, k + 1)

\* collect_storage_metrics that numbers the records it yields, not the
\* directories it enumerates
RECURSIVE storage_metrics_dense(_, _, _)
storage_metrics_dense(directories, existing, k) ==
  IF k > Len(directories) THEN << >>
  ELSE (IF directories[k] \in existing
        THEN <<4 + Cardinality({j \in 1..(k - 1) :
                                   directories[j] \in existing})>>
        ELSE << >>)
       \o storage_metrics_dense(directories, existing, k + 1)

\* collect_storage_metrics: metric_type_id 4 + i for the directory at
\* (zero-based) position i, for the directories that exist
RECURSIVE storage_metrics(_, _, _)
storage_metrics(directories, existing, k) ==
  IF k > Len(directories) THEN << >>
  ELSE (IF directories[k] \in existing THEN <<4 + (k - 1)>> ELSE << >>)
       \o storage_metrics(directories, existing, k + 1)

\* collect_all_metrics: the metric_type_id of the records of the batch, f
\* the collectors that return None, api_directories the list the API gave
collect_all_metrics(cfg, f, api_directories, existing) ==
     local_metrics(cfg, f)
  \o (IF cfg.enable_disk_monitoring
      THEN storage_metrics(monitored(api_directories), existing, 1)
      ELSE << >>)

\* get_agent_configuration() has returned api at time t: the entry of hist
\* for this fetch, last the entry of the fetch before it
fetched(last, api, t) ==
  Some([at |-> t, ok |-> api # None,
        gap |-> IF last # None /\ last[1].ok /\ api # None
                THEN Some(t - last[1].at) ELSE None])

\* ---------------------------------------------------------- agent process
\* answers of the environment that count as faults are limited per
\* behaviour; the others are the plain answers:
PlainLogins == {r \in LoginResponses : r.exc = "none" /\ r.shape = "full"
                                        /\ r.token = "tokA"}
PlainPosts == {r \in MetricsResponses :
                  r.exc = "none" /\ r.status_code \in {200, 201}}
PlainHeartbeats == {r \in HeartbeatResponses :
                       r.exc = "none" /\ r.status_code = 200}
PlainPayload == Payload(Some(120), Some(TRUE), Some(TRUE), Some(TRUE),
                        Some(TRUE), TRUE)
PlainConfigs == {r \in ConfigResponses :
                    r.status_code = 200 /\ r.data = PlainPayload}
\* the answers that carry a non-empty configuration object
LoadedConfigs == {r \in ConfigResponses :
                     r.exc = "none" /\ r.status_code = 200 /\ truthy(r.data)}
PlainDirectories == {r \in DirectoriesResponses :
                        r.status_code = 200 /\ r.directories # << >>}
AllDirectories == {"/root", "/var", "/tmp", "/home", "/usr", "/data"}

\* exchanges recorded in l that failed
Failures(l) ==
  Cardinality({i \in 1..Len(l) :
                  ~l[i].ok /\ l[i].ev # "refresh_token_if_needed"})
\* faults so far: those of the steps completed and those of the running one
Faults == hist.faults + Failures(log)
\* the answers the environment may give: all of S, or the plain ones once
\* the faults of the behaviour are used up
Answers(S, plain) == IF Faults < MaxFaults THEN S ELSE plain

\* the configuration the service holds for the host: the one the agent got
\* last
Served == IF hist.served = None THEN PlainPayload ELSE hist.served[1]
\* the answers to the configuration GET: at the start of the agent the
\* service holds any of the configurations; later the plain answer is the
\* configuration it held before
ConfigAnswers ==
  IF ret_pc = "start_config" THEN Answers(ConfigResponses, LoadedConfigs)
  ELSE Answers(ConfigResponses,
               {r \in LoadedConfigs : r.data = Served})

AgentInit ==
  /\ now = 0
  /\ current_token = None
  /\ auth_header = None
  /\ last_heartbeat = 0 - InitialHeartbeatAgeMinutes * 60
  /\ last_config_refresh = 0 - InitialConfigAgeMinutes * 60
  /\ pc = "main"
  /\ op = "none"
  /\ metrics = << >>
  /\ depth = 0
  /\ result = FALSE
  /\ log = << >>
  /\ pre = Snapshot(0)
  /\ calls = 0
  /\ argv \in ArgvForms
  /\ exit_status = None
  /\ running = FALSE
  /\ config = DefaultConfig
  /\ total_slept = 0
  /\ ret_pc = "idle"
  /\ hist = NoHistory

client == <<op, pre, calls>>
token == <<current_token, auth_header>>
timers == <<last_heartbeat, last_config_refresh>>
process == <<argv, exit_status, running>>

\* main(): checks of the command line, construction of the agent
Main ==
  /\ pc = "main"
  /\ IF argv = "ok"
       THEN pc' = "start" /\ exit_status' = exit_status
       ELSE pc' = "exited" /\ exit_status' = Some(1)
  /\ UNCHANGED <<now, token, timers, metrics, depth, result, log, client,
                 argv, running, config, total_slept, ret_pc, hist>>

\* start() up to the call of get_agent_configuration(), or to its return
\* when the login fails; main() returns after start() has returned
Start(r) ==
  /\ pc = "start"
  /\ LET a == authenticate(current_token, auth_header, r, now + elapsed(r))
     IN /\ current_token' = a.current_token
        /\ auth_header' = a.auth_header
        /\ log' = <<LoginEvent(r, a.ret)>>
        /\ pc' = after_login(a.ret)
        /\ running' = IF after_login(a.ret) = "exited" THEN running ELSE TRUE
        /\ exit_status' = IF after_login(a.ret) = "exited" THEN Some(0)
                          ELSE exit_status
        /\ hist' = [hist EXCEPT
                      !.started = IF a.ret THEN "yes" ELSE "failed",
                      !.faults = IF a.ret /\ r \notin PlainLogins
                                 THEN @ + 1 ELSE @]
  /\ now' = now + elapsed(r)
  /\ ret_pc' = "start_config"
  /\ UNCHANGED <<timers, metrics, depth, result, client, argv, config,
                 total_slept>>

\* get_agent_configuration(): the token gate
GetConfigurationGate(r) ==
  /\ pc = "get_agent_configuration"
  /\ LET g == refresh_token_if_needed(current_token, auth_header, r, now)
     IN /\ current_token' = g.current_token
        /\ auth_header' = g.auth_header
        /\ now' = g.now
        /\ log' = g.log
        /\ IF g.ret
             THEN pc' = "configuration_get" /\ UNCHANGED <<result, depth>>
             ELSE IF g.exc = "none" THEN Return(None) ELSE Raised
        \* in start() the call is in no try block: the process ends with
        \* a traceback
        /\ exit_status' = IF g.exc # "none" /\ catch(ret_pc) = "exited"
                          THEN Some(1) ELSE exit_status
  /\ UNCHANGED <<timers, argv, running, config, total_slept, ret_pc, hist,
                 client, metrics>>

\* get_agent_configuration(): the GET; the JSON object or None is returned
GetConfigurationRequest(r) ==
  /\ pc = "configuration_get"
  /\ now' = now + elapsed(r)
  /\ LET api == IF r.exc = "none" /\ r.status_code = 200
                THEN Some(r.data) ELSE None
     IN /\ log' = Append(log, RequestEvent("get_configuration", r, api # None))
        /\ Return(api)
  /\ UNCHANGED <<token, agent, client, metrics>>

\* start() after get_agent_configuration() has returned
StartConfig ==
  /\ pc = "start_config"
  /\ config' = config_loaded(config, result)
  /\ pc' = after_start_config(result)
  /\ result' = FALSE
  /\ log' = << >>
  /\ hist' = [hist EXCEPT
                !.start_config = IF result # None /\ truthy(result[1])
                                 THEN "loaded" ELSE "failed",
                !.fetch = fetched(hist.fetch, result, now),
                !.served = IF result # None /\ truthy(result[1])
                           THEN result ELSE @,
                !.faults = @ + Failures(log)
                             + (IF result # None /\ ~truthy(result[1])
                                THEN 1 ELSE 0)]
  /\ UNCHANGED <<now, token, timers, metrics, depth, client, process,
                 total_slept, ret_pc>>

\* "while self.running" of start(), then _should_send_heartbeat(); when
\* the loop ends start() and main() return
LoopTop ==
  /\ pc = "loop"
  /\ IF while_running(running)
       THEN /\ hist.cycles < MaxCycles
            /\ pc' = IF should_send_heartbeat(now, last_heartbeat)
                     THEN "send_heartbeat" ELSE "refresh_check"
            /\ hist' = [hist EXCEPT
                          !.cycles = @ + 1,
                          !.cycle_start = now,
                          !.run_start = IF hist.cycles = 0 THEN now ELSE @,
                          !.hb_calls =
                             IF should_send_heartbeat(now, last_heartbeat)
                             THEN @ + 1 ELSE @]
            /\ exit_status' = exit_status
       ELSE /\ pc' = "exited"
            /\ exit_status' = Some(0)
            /\ hist' = hist
  /\ ret_pc' = "heartbeat_done"
  /\ UNCHANGED <<now, token, timers, metrics, depth, result, log, client,
                 argv, running, config, total_slept>>

\* send_heartbeat(): the token gate
SendHeartbeatGate(r) ==
  /\ pc = "send_heartbeat"
  /\ LET g == refresh_token_if_needed(current_token, auth_header, r, now)
     IN /\ current_token' = g.current_token
        /\ auth_header' = g.auth_header
        /\ now' = g.now
        /\ log' = g.log
        /\ IF g.ret
             THEN pc' = "heartbeat_post" /\ UNCHANGED <<result, depth>>
             ELSE IF g.exc = "none" THEN Return(FALSE) ELSE Raised
  /\ UNCHANGED <<agent, client, metrics>>

\* send_heartbeat() that posts again when the answer is 401
heartbeat_again_on_401(r) == r.exc = "none" /\ r.status_code = 401

\* send_heartbeat(): whether the answer r of the POST leads to a further
\* POST; every branch after the POST returns
heartbeat_again(r) == FALSE

\* send_heartbeat(): the POST
SendHeartbeatPost(r) ==
  /\ pc = "heartbeat_post"
  /\ now' = now + elapsed(r)
  /\ LET success == r.exc = "none" /\ r.status_code \in {200, 201}
     IN /\ log' = Append(log, RequestEvent("post_heartbeat", r, success))
        /\ IF heartbeat_again(r)
             THEN UNCHANGED <<pc, result, depth>>
             ELSE Return(success)
  /\ UNCHANGED <<token, agent, client, metrics>>

\* _send_heartbeat() after send_heartbeat() has returned
HeartbeatDone ==
  /\ pc = "heartbeat_done"
  /\ last_heartbeat' = heartbeat_sent(last_heartbeat, result, now)
  /\ pc' = "refresh_check"
  /\ result' = FALSE
  /\ log' = << >>
  /\ hist' = [hist EXCEPT !.hb_last = IF result THEN "ok" ELSE "failed",
                          !.faults = @ + Failures(log)]
  /\ UNCHANGED <<now, token, last_config_refresh, metrics, depth, client,
                 process, config, total_slept, ret_pc>>

\* _should_refresh_config() and the call of _refresh_config_if_needed()
RefreshCheck ==
  /\ pc = "refresh_check"
  /\ pc' = IF should_refresh_config(now, last_config_refresh)
           THEN "get_agent_configuration" ELSE "collect"
  /\ ret_pc' = "refresh_config"
  /\ UNCHANGED <<now, token, timers, metrics, depth, result, log, client,
                 process, config, total_slept, hist>>

\* _refresh_config_if_needed() after get_agent_configuration() has returned
RefreshConfig ==
  /\ pc = "refresh_config"
  /\ config' = config_loaded(config, result)
  /\ last_config_refresh' = config_refreshed(last_config_refresh, result, now)
  /\ pc' = "collect"
  /\ result' = FALSE
  /\ log' = << >>
  /\ hist' = [hist EXCEPT
                !.refresh_last = IF result = None THEN "unavailable"
                                 ELSE IF truthy(result[1]) THEN "loaded"
                                 ELSE "empty",
                !.fetch = fetched(hist.fetch, result, now),
                !.served = IF result # None /\ truthy(result[1])
                           THEN result ELSE @,
                !.faults = @ + Failures(log)
                             + (IF result \notin {None, Some(Served)}
                                THEN 1 ELSE 0)]
  /\ UNCHANGED <<now, token, last_heartbeat, metrics, depth, client, process,
                 total_slept, ret_pc>>

\* collect_all_metrics(): the CPU, RAM and network collectors, and the
\* call of get_monitored_directories() by collect_storage_metrics()
Collect(f) ==
  /\ pc = "collect"
  /\ now' = now + (IF 1 \in collectors_invoked(config) /\ 1 \notin f
                   THEN CpuSampleSecs ELSE 0)
  /\ metrics' = local_metrics(config, f)
  /\ pc' = IF 4 \in collectors_invoked(config)
           THEN "get_monitored_directories" ELSE "collected"
  /\ ret_pc' = "directories_done"
  /\ hist' = [hist EXCEPT !.faults = IF f = {} THEN @ ELSE @ + 1,
                          !.invoked = collectors_invoked(config)]
  /\ UNCHANGED <<token, timers, depth, result, log, client, process, config,
                 total_slept>>

\* get_monitored_directories(): the token gate
GetDirectoriesGate(r) ==
  /\ pc = "get_monitored_directories"
  /\ LET g == refresh_token_if_needed(current_token, auth_header, r, now)
     IN /\ current_token' = g.current_token
        /\ auth_header' = g.auth_header
        /\ now' = g.now
        /\ log' = g.log
        /\ IF g.ret
             THEN pc' = "directories_get" /\ UNCHANGED <<result, depth>>
             ELSE IF g.exc = "none" THEN Return(fallback_directories)
             ELSE Raised
  /\ UNCHANGED <<agent, client, metrics>>

\* get_monitored_directories(): the GET
GetDirectoriesRequest(r) ==
  /\ pc = "directories_get"
  /\ now' = now + elapsed(r)
  /\ LET loaded == r.exc = "none" /\ r.status_code = 200
     IN /\ log' = Append(log, RequestEvent("get_directories", r, loaded))
        /\ Return(IF loaded THEN r.directories ELSE fallback_directories)
  /\ UNCHANGED <<token, agent, client, metrics>>

\* the rest of collect_storage_metrics() and of collect_all_metrics()
StorageMetrics(existing) ==
  /\ pc = "directories_done"
  /\ metrics' = metrics \o storage_metrics(monitored(result), existing, 1)
  /\ pc' = "collected"
  /\ result' = FALSE
  /\ log' = << >>
  /\ hist' = [hist EXCEPT
                !.faults = @ + Failures(log)
                             + (IF result = << >> \/ existing # AllDirectories
                                THEN 1 ELSE 0)]
  /\ UNCHANGED <<now, token, timers, depth, client, process, config,
                 total_slept, ret_pc>>

\* _collect_and_send_metrics() after collect_all_metrics() has returned
SendCollected ==
  /\ pc = "collected"
  /\ IF metrics # << >>
       THEN pc' = "send_metrics" /\ depth' = 1
       ELSE pc' = "wait_for_next_cycle" /\ depth' = depth
  /\ ret_pc' = "wait_for_next_cycle"
  /\ log' = << >>
  /\ UNCHANGED <<now, token, timers, metrics, result, client, process,
                 config, total_slept, hist>>

\* entry of _wait_for_next_cycle(); the locals of the cycle body are gone
BeginWait ==
  /\ pc = "wait_for_next_cycle"
  /\ pc' = "sleep"
  /\ total_slept' = 0
  /\ metrics' = << >>
  /\ depth' = 0
  /\ result' = FALSE
  /\ log' = << >>
  /\ ret_pc' = "idle"
  /\ hist' = [hist EXCEPT !.faults = @ + Failures(log), !.wait_start = now,
                          !.invoked = {}]
  /\ UNCHANGED <<now, token, timers, client, process, config>>

\* positions of the loop body at which an unexpected exception is raised:
\* in the token gate of an operation of the API client (which is in no try
\* block of the client), in the code of a step, between two steps
RaisePositions ==
  {"send_heartbeat", "heartbeat_done", "refresh_check",
   "get_agent_configuration", "refresh_config", "collect",
   "get_monitored_directories", "directories_done", "collected",
   "send_metrics"}

\* an exception of class Exception is raised in the loop body
Raise ==
  /\ pc \in RaisePositions
  /\ hist.cycles >= 1
  /\ ret_pc # "start_config"
  /\ depth <= 1
  /\ Faults < MaxFaults
  /\ pc' = handler(pc, ret_pc)
  /\ result' = IF pc = "get_monitored_directories" THEN fallback_directories
               ELSE FALSE
  /\ depth' = 0
  /\ log' = << >>
  /\ hist' = [hist EXCEPT
                !.faults = @ + Failures(log) + 1,
                !.raised = Some([cycles |-> hist.cycles]),
                !.hb_last = IF pc \in {"send_heartbeat", "heartbeat_done"}
                            THEN "failed" ELSE @]
  /\ UNCHANGED <<now, token, timers, metrics, client, process, config,
                 total_slept, ret_pc>>

\* numbers of completed sleep steps at which a shutdown signal may arrive
\* during the wait
SignalSteps == {0, 2, 59, 119}

\* the first shutdown signal as seen by hist: time, position, iterations
\* begun, sleep steps completed
Signalled ==
  Some([at |-> now, pc |-> pc, cycles |-> hist.cycles, slept |-> total_slept])

\* one round of the loop of _wait_for_next_cycle(): the test, and if it
\* holds one sleep step, during which a shutdown signal may be handled
WaitStep(sig) ==
  /\ pc = "sleep"
  /\ IF keep_waiting(total_slept, config.collection_interval, running)
       THEN /\ sig => (hist.signal_at = None /\ total_slept \in SignalSteps)
            /\ now' = now + sleep_step
            /\ total_slept' = total_slept + sleep_step
            /\ pc' = pc
            /\ running' = IF sig THEN FALSE ELSE running
            /\ hist' = IF sig THEN [hist EXCEPT !.signal_at = Signalled]
                       ELSE hist
       ELSE /\ ~sig
            /\ pc' = "loop"
            /\ UNCHANGED <<now, total_slept, running, hist>>
  /\ UNCHANGED <<token, timers, metrics, depth, result, log, client, argv,
                 exit_status, config, ret_pc>>

\* _shutdown_handler run between two steps of the main thread
Shutdown ==
  /\ pc \notin {"main", "exited"}
  /\ pc = "sleep" => total_slept \in SignalSteps
  /\ hist.signal_at = None
  /\ running' = FALSE
  /\ hist' = [hist EXCEPT !.signal_at = Signalled]
  /\ UNCHANGED <<now, token, timers, pc, metrics, depth, result, log, client,
                 argv, exit_status, config, total_slept, ret_pc>>

\* the steps of send_metrics() are those of the client
AgentNext ==
  \/ Main
  \/ \E r \in Answers(LoginResponses, PlainLogins) : Start(r)
  \/ \E r \in GateAnswers(FALSE, current_token, now) : GetConfigurationGate(r)
  \/ \E r \in ConfigAnswers : GetConfigurationRequest(r)
  \/ StartConfig
  \/ LoopTop
  \/ \E r \in GateAnswers(FALSE, current_token, now) : SendHeartbeatGate(r)
  \/ \E r \in Answers(HeartbeatResponses, PlainHeartbeats) : SendHeartbeatPost(r)
  \/ HeartbeatDone
  \/ RefreshCheck
  \/ RefreshConfig
  \/ \E f \in Answers(CollectorFailures, {{}}) : Collect(f)
  \/ \E r \in GateAnswers(FALSE, current_token, now) : GetDirectoriesGate(r)
  \/ \E r \in Answers(DirectoriesResponses, PlainDirectories) :
        GetDirectoriesRequest(r)
  \/ \E e \in Answers(ExistingDirectories, {AllDirectories}) : StorageMetrics(e)
  \/ SendCollected
  \/ \E r \in GateAnswers(FALSE, current_token, now) : SendMetricsEntry(r)
  \/ \E r \in Answers(MetricsResponses, PlainPosts) : SendMetricsPost(r)
  \/ \E r \in Answers(LoginResponses, PlainLogins) : SendMetricsReauth(r)
  \/ BeginWait
  \/ \E sig \in BOOLEAN : WaitStep(sig)
  \/ Shutdown
  \/ Raise

AgentSpec == AgentInit /\ [][AgentNext]_vars

\* --------------------------------------------- caller of the API client
\* the operations of AuthenticatedApiClient that send the bearer token
BearerOps == {"send_metrics", "send_heartbeat", "get_agent_configuration",
              "get_monitored_directories"}

\* a caller invokes the operations of the API client one after another
ClientNext ==
  \/ \E o \in BearerOps \ {"send_metrics"}, d \in Delays : Call(o, d, << >>)
  \/ \E d \in Delays : Call("send_metrics", d, <<1, 2>>)
  \/ \E r \in GateAnswers(FALSE, current_token, now) : SendHeartbeatGate(r)
  \/ \E r \in HeartbeatResponses : SendHeartbeatPost(r)
  \/ \E r \in GateAnswers(FALSE, current_token, now) : GetConfigurationGate(r)
  \/ \E r \in ConfigResponses : GetConfigurationRequest(r)
  \/ \E r \in GateAnswers(FALSE, current_token, now) : GetDirectoriesGate(r)
  \/ \E r \in DirectoriesResponses : GetDirectoriesRequest(r)
  \/ \E r \in GateAnswers(FALSE, current_token, now) : SendMetricsEntry(r)
  \/ \E r \in MetricsResponses : SendMetricsPost(r)
  \/ \E r \in LoginResponses : SendMetricsReauth(r)

ClientSpec == Init /\ [][ClientNext]_vars

\* ------------------------------------------------ caller of AgentConfig
\* the configurations an agent can have when a remote object is applied
PriorConfigs ==
  [collection_interval : {60, 120},
   enable_cpu_monitoring : BOOLEAN,
   enable_ram_monitoring : BOOLEAN,
   enable_disk_monitoring : BOOLEAN,
   enable_network_monitoring : BOOLEAN]

ConfigInit ==
  /\ now = 0
  /\ current_token = None
  /\ auth_header = None
  /\ last_heartbeat = 0 - InitialHeartbeatAgeMinutes * 60
  /\ last_config_refresh = 0 - InitialConfigAgeMinutes * 60
  /\ pc = "idle"
  /\ op = "none"
  /\ metrics = << >>
  /\ depth = 0
  /\ result = FALSE
  /\ log = << >>
  /\ config \in PriorConfigs
  /\ pre = [config |-> config]
  /\ calls = 0
  /\ argv = "ok"
  /\ exit_status = None
  /\ running = FALSE
  /\ total_slept = 0
  /\ ret_pc = "idle"
  /\ hist = NoHistory

\* config.update_from_api(p): pre keeps the fields before the call, log
\* the objects applied so far
UpdateFromApi(p) ==
  /\ pc = "idle"
  /\ calls < MaxCalls
  /\ calls' = calls + 1
  /\ op' = "update_from_api"
  /\ pre' = [config |-> config]
  /\ config' = update_from_api(config, p)
  /\ result' = config_changed(config, update_from_api(config, p))
  /\ log' = Append(log, [ev |-> "update_from_api", payload |-> p])
  /\ UNCHANGED <<now, token, timers, pc, metrics, depth, process,
                 total_slept, ret_pc, hist>>

\* "api_config = get_agent_configuration()" answered 200 with the object
\* p, then "if api_config: self.config.update_from_api(api_config)"
ApplyFetched(p) ==
  /\ pc = "idle"
  /\ calls < MaxCalls
  /\ calls' = calls + 1
  /\ op' = "refresh_config"
  /\ pre' = [config |-> config]
  /\ config' = config_loaded(config, Some(p))
  /\ result' = FALSE
  /\ log' = Append(log, [ev |-> "refresh_config", payload |-> p])
  /\ UNCHANGED <<now, token, timers, pc, metrics, depth, process,
                 total_slept, ret_pc, hist>>

\* an object with none of the five keys and some other key
OtherKeysOnly == Payload(None, None, None, None, None, TRUE)
\* an object whose interval is not positive
ZeroInterval == Payload(Some(0), None, None, None, None, FALSE)
\* the objects the configuration endpoint can answer
FetchedObjects == ConfigPayloads \cup {OtherKeysOnly, ZeroInterval}

ConfigNext ==
  \/ \E p \in FetchedObjects : UpdateFromApi(p)
  \/ \E p \in FetchedObjects : ApplyFetched(p)

ConfigSpec == ConfigInit /\ [][ConfigNext]_vars

\* -------------------------------------- caller of SystemMetricsCollector
\* the lists get_monitored_directories() can return
DirectoryLists ==
  {<<"/data", "/var">>, << >>, <<"/var", "/var">>, <<"/data", "/var", "/tmp">>,
   fallback_directories}
\* the directories of a host that exist and can be read
HostDirectories ==
  ExistingDirectories \cup {{}, {"/data", "/tmp"}, {"/root", "/home"}}

CollectorInit ==
  /\ now = 0
  /\ current_token = None
  /\ auth_header = None
  /\ last_heartbeat = 0 - InitialHeartbeatAgeMinutes * 60
  /\ last_config_refresh = 0 - InitialConfigAgeMinutes * 60
  /\ pc = "idle"
  /\ op = "none"
  /\ metrics = << >>
  /\ depth = 0
  /\ result = FALSE
  /\ log = << >>
  /\ config \in PriorConfigs
  /\ pre = [config |-> config]
  /\ calls = 0
  /\ argv = "ok"
  /\ exit_status = None
  /\ running = FALSE
  /\ total_slept = 0
  /\ ret_pc = "idle"
  /\ hist = NoHistory

\* collect_all_metrics(): log keeps the number of records of the CPU, RAM
\* and network collectors, the directory list enumerated and the
\* directories that gave a record
CollectAllMetrics(f, d, e) ==
  /\ pc = "idle"
  /\ calls < MaxCalls
  /\ calls' = calls + 1
  /\ op' = "collect_all_metrics"
  /\ metrics' = collect_all_metrics(config, f, d, e)
  /\ log' = <<[ev |-> "collect_all_metrics",
               local |-> Len(local_metrics(config, f)),
               directories |-> monitored(d), existing |-> e]>>
  /\ UNCHANGED <<now, token, timers, pc, depth, process, total_slept, ret_pc,
                 hist, config, pre, result>>

CollectorNext ==
  \E f \in CollectorFailures, d \in DirectoryLists, e \in HostDirectories :
     CollectAllMetrics(f, d, e)

CollectorSpec == CollectorInit /\ [][CollectorNext]_vars

\* ------------------------------------------- the log lines with the token
\* longest token string logged
MaxTokenLen == 32
\* token_string[:20] and token_string[-10:] of the two token log lines
token_head == 20
token_tail == 10
\* headers.get('Authorization')[7:27] of the log line of send_metrics
header_from == 7
header_to == 27

\* a token string of n characters; a character is named by its position
TokenString(n) == [i \in 1..n |-> i]
\* the characters of "Bearer " and of "..."
BearerPrefix == [i \in 1..header_from |-> 0 - i]
Dots == <<0, 0, 0>>
lesser(a, b) == IF a < b THEN a ELSE b
greater(a, b) == IF a > b THEN a ELSE b
\* the slices s[:k], s[-k:] and s[a:b] of Python
prefix(s, k) == SubSeq(s, 1, lesser(k, Len(s)))
suffix(s, k) == SubSeq(s, greater(1, Len(s) - k + 1), Len(s))
slice(s, a, b) == SubSeq(s, a + 1, lesser(b, Len(s)))

\* the token part of "JWT token acquired: ..." and of "Current token: ..."
token_message(s) == prefix(s, token_head) \o Dots \o suffix(s, token_tail)
\* the token part of "Authorization header: Bearer ..."
header_message(h) == slice(h, header_from, header_to) \o Dots

LoggerInit ==
  /\ now = 0
  /\ \E n \in 1..MaxTokenLen :
        /\ current_token = Some([token |-> TokenString(n),
                                 expires_at |-> TokenLifetime,
                                 user_id |-> 1, username |-> "agent"])
        /\ auth_header = BearerPrefix \o TokenString(n)
  /\ last_heartbeat = 0 - InitialHeartbeatAgeMinutes * 60
  /\ last_config_refresh = 0 - InitialConfigAgeMinutes * 60
  /\ pc = "idle"
  /\ op = "none"
  /\ metrics = << >>
  /\ depth = 0
  /\ result = FALSE
  /\ log = << >>
  /\ pre = Snapshot(0)
  /\ calls = 0
  /\ argv = "ok"
  /\ exit_status = None
  /\ running = FALSE
  /\ config = DefaultConfig
  /\ total_slept = 0
  /\ ret_pc = "idle"
  /\ hist = NoHistory

\* one log line is written; log keeps the token part of each line
LogLine(name, message) ==
  /\ pc = "idle"
  /\ calls < MaxCalls
  /\ calls' = calls + 1
  /\ op' = name
  /\ log' = Append(log, [ev |-> name, message |-> message])
  /\ UNCHANGED <<now, token, timers, pc, metrics, depth, result, pre,
                 process, config, total_slept, ret_pc, hist>>

\* authenticate(): "JWT token acquired: ..."
LogTokenAcquired == LogLine("authenticate", token_message(current_token[1].token))
\* refresh_token_if_needed(): "Current token: ..."
LogCurrentToken ==
  LogLine("refresh_token_if_needed", token_message(current_token[1].token))
\* send_metrics(): "Authorization header: Bearer ..."
LogAuthorizationHeader == LogLine("send_metrics", header_message(auth_header))

LoggerNext == LogTokenAcquired \/ LogCurrentToken \/ LogAuthorizationHeader

LoggerSpec == LoggerInit /\ [][LoggerNext]_vars

\* ------------------------------------- v1 agent: ZenMonApiClient.send_metrics
\* AgentConfig.max_retries of the v1 agent
max_retries == 3
\* AgentConfig.retry_delay of the v1 agent, seconds
retry_delay == 10

\* keys of ZenMonApiClient.metric_types after initialize(): the metric names
\* the API listed
metric_types == {"cpu_usage_percent", "memory_usage_percent"}

\* the metrics argument of the v1 send_metrics: the metric_name of each record
V1MetricLists ==
  {<< >>,
   <<"cpu_usage_percent">>,
   <<"uptime_seconds">>,
   <<"cpu_usage_percent", "memory_usage_percent">>,
   <<"uptime_seconds", "cpu_usage_percent">>}

\* api_metrics of the v1 send_metrics: the records whose name is known
known(n) == n \in metric_types
api_metrics(ms) == SelectSeq(ms, known)

\* answers of POST /public/metrics/batch.  shape: what response.json() meets
\* ("object": a JSON object, "array": JSON that is not an object,
\* "not_json": a body that is not JSON)
V1Responses ==
       {[exc |-> "none", status_code |-> 201, shape |-> s, secs |-> 0] :
            s \in {"object", "array", "not_json"}}
  \cup {[exc |-> "none", status_code |-> c, shape |-> "object", secs |-> 0] :
            c \in {200, 500}}
  \cup {[exc |-> "Timeout", status_code |-> 0, shape |-> "not_json",
         secs |-> timeout],
        [exc |-> "ConnectionError", status_code |-> 0, shape |-> "not_json",
         secs |-> 0]}

\* the try block of one attempt returns True: the POST raised nothing, the
\* status is 201, response.json() parsed the body and result.get() found an
\* object; anything else is logged and the loop goes on
attempt_returns_true(r) ==
  /\ r.exc = "none"
  /\ r.status_code = 201
  /\ r.shape = "object"

\* seconds slept after the failed attempt number attempt (from 0)
retry_wait(attempt) ==
  IF attempt < max_retries - 1 THEN retry_delay ELSE 0

V1PostEvent(r) ==
  [ev |-> "post_metrics", exc |-> r.exc, status_code |-> r.status_code,
   shape |-> r.shape, secs |-> r.secs]
V1SleepEvent(s) ==
  [ev |-> "sleep", exc |-> "none", status_code |-> 0, shape |-> "none",
   secs |-> s]

\* initialize() has loaded metric_types; the v1 client has no token
V1Init ==
  /\ now = 0
  /\ current_token = None
  /\ auth_header = None
  /\ last_heartbeat = 0 - InitialHeartbeatAgeMinutes * 60
  /\ last_config_refresh = 0 - InitialConfigAgeMinutes * 60
  /\ pc = "idle"
  /\ op = "none"
  /\ metrics = << >>
  /\ depth = 0
  /\ result = FALSE
  /\ log = << >>
  /\ pre = Snapshot(0)
  /\ calls = 0
  /\ argv = "ok"
  /\ exit_status = None
  /\ running = FALSE
  /\ config = DefaultConfig
  /\ total_slept = 0
  /\ ret_pc = "idle"
  /\ hist = NoHistory

\* send_metrics(ms) up to the retry loop: an empty list returns True, a list
\* without a known metric returns False, else the loop begins with attempt 0
\* (depth holds the loop variable attempt)
V1SendMetrics(ms) ==
  /\ pc = "idle"
  /\ calls < MaxCalls
  /\ calls' = calls + 1
  /\ op' = "send_metrics"
  /\ metrics' = ms
  /\ depth' = 0
  /\ log' = << >>
  /\ pre' = Snapshot(now)
  /\ IF ms = << >>
       THEN pc' = "idle" /\ result' = TRUE
       ELSE IF api_metrics(ms) = << >>
              THEN pc' = "idle" /\ result' = FALSE
              ELSE pc' = "v1_attempt" /\ result' = FALSE
  /\ UNCHANGED <<now, token, timers, process, config, total_slept, ret_pc,
                 hist>>

\* one iteration of 'for attempt in range(max_retries)': the POST, then
\* either return True, or the sleep and the next attempt, or, after the last
\* attempt, return False
V1Attempt(r) ==
  /\ pc = "v1_attempt"
  /\ IF attempt_returns_true(r)
       THEN /\ now' = now + elapsed(r)
            /\ log' = Append(log, V1PostEvent(r))
            /\ result' = TRUE
            /\ pc' = "idle"
            /\ depth' = depth
       ELSE /\ now' = now + elapsed(r) + retry_wait(depth)
            /\ log' = Append(log, V1PostEvent(r))
                      \o (IF retry_wait(depth) > 0
                            THEN <<V1SleepEvent(retry_wait(depth))>>
                            ELSE << >>)
            /\ result' = FALSE
            /\ IF depth + 1 < max_retries
                 THEN pc' = "v1_attempt" /\ depth' = depth + 1
                 ELSE pc' = "idle" /\ depth' = depth
  /\ UNCHANGED <<token, timers, op, metrics, pre, calls, process, config,
                 total_slept, ret_pc, hist>>

V1Next ==
  \/ \E ms \in V1MetricLists : V1SendMetrics(ms)
  \/ \E r \in V1Responses : V1Attempt(r)

V1Spec == V1Init /\ [][V1Next]_vars

\* ------------------------------------------------------------- properties
\* the operation o invoked last has returned
Returned(o) == pc = "idle" /\ op = o

PostIdx == {i \in 1..Len(log) : log[i].ev = "post_metrics"}
AuthIdx == {i \in 1..Len(log) : log[i].ev = "authenticate"}
Min(S) == CHOOSE i \in S : \A j \in S : i <= j
\* the state at the invocation of the running operation is the present one
Untouched ==
  /\ pre.now = now
  /\ pre.current_token = current_token
  /\ pre.auth_header = auth_header
  /\ pre.last_heartbeat = last_heartbeat
  /\ pre.last_config_refresh = last_config_refresh

\* C1: one top-level send_metrics call with a non-empty batch makes at most
\* 2 POSTs to the metrics endpoint, whatever the server answers.
C1_AtMostTwoPosts ==
  op = "send_metrics" => Cardinality(PostIdx) <= 2

\* C2: when the first metrics POST is answered 401, the login that follows
\* succeeds and the second POST is answered 200, send_metrics makes exactly
\* 2 POSTs with exactly one authenticate() between them, the current token
\* is the one of that login, and the call returns success.
C2_RetryAfter401 ==
  (/\ Returned("send_metrics")
   /\ PostIdx # {}
   /\ log[Min(PostIdx)].exc = "none"
   /\ log[Min(PostIdx)].status_code = 401
   /\ \A k \in AuthIdx : log[k].ok
   /\ \A j \in PostIdx \ {Min(PostIdx)} :
         j = Min(PostIdx \ {Min(PostIdx)})
           => log[j].exc = "none" /\ log[j].status_code = 200)
  => /\ Cardinality(PostIdx) = 2
     /\ LET i == Min(PostIdx)
            j == Min(PostIdx \ {i})
        IN /\ {k \in AuthIdx : i < k /\ k < j} = {i + 1}
           /\ current_token = Some([token |-> log[i + 1].body.token,
                                    expires_at |-> current_token[1].expires_at,
                                    user_id |-> log[i + 1].body.id,
                                    username |-> log[i + 1].body.login])
     /\ result = TRUE

C2_Witness ==
  /\ Returned("send_metrics")
  /\ Cardinality(PostIdx) = 2
  /\ log[Min(PostIdx)].status_code = 401
  /\ \A k \in AuthIdx : log[k].ok
  /\ result = TRUE
  /\ pre.current_token # None
  /\ pre.current_token # current_token

\* C3: a metrics POST answered 422 ends send_metrics with failure: nothing
\* follows it (no retry, no authenticate()), and when it is the first POST
\* of the call it is the only one.
C3_NoRetryOn422 ==
  \A i \in PostIdx :
    (log[i].exc = "none" /\ log[i].status_code = 422)
      => /\ i = Len(log)
         /\ Returned("send_metrics")
         /\ result = FALSE
         /\ (i = Min(PostIdx) => Cardinality(PostIdx) = 1)

C3_Witness ==
  /\ Returned("send_metrics")
  /\ Cardinality(PostIdx) = 1
  /\ \E i \in PostIdx : log[i].exc = "none" /\ log[i].status_code = 422
  /\ result = FALSE

\* C4: if refresh_token_if_needed() returns false at the start of
\* send_metrics with a non-empty batch, send_metrics returns failure and no
\* metrics POST is made.
C4_FailFastOnGate ==
  (/\ op = "send_metrics"
   /\ log # << >>
   /\ log[1].ev = "refresh_token_if_needed"
   /\ ~log[1].ok)
  => /\ Returned("send_metrics")
     /\ result = FALSE
     /\ PostIdx = {}

C4_Witness ==
  /\ Returned("send_metrics")
  /\ metrics # << >>
  /\ log # << >>
  /\ log[1].ev = "refresh_token_if_needed"
  /\ ~log[1].ok
  /\ result = FALSE
  /\ PostIdx = {}

\* C5: send_metrics([]) returns success without any network exchange (no
\* metrics POST, no login) and leaves the token, the Authorization header,
\* last_heartbeat and last_config_refresh as they were.
C5_EmptyBatchNoOp ==
  (op = "send_metrics" /\ metrics = << >> /\ pc = "idle")
  => /\ result = TRUE
     /\ log = << >>
     /\ Untouched

\* an empty batch sent while the token gate would have had to log in
C5_Witness ==
  /\ Returned("send_metrics")
  /\ metrics = << >>
  /\ result = TRUE
  /\ current_token # None
  /\ current_token[1].expires_at - now <= 300

\* C6: a metrics POST that ends with a status other than 200, 201, 401, 422
\* or with a timeout or connection error ends send_metrics with failure:
\* nothing follows it (no retry, no authenticate()), and when it is the
\* first POST of the call it is the only one.
C6_NoRetryOnOtherFailure ==
  \A i \in PostIdx :
    (log[i].exc # "none" \/ log[i].status_code \notin {200, 201, 401, 422})
      => /\ i = Len(log)
         /\ Returned("send_metrics")
         /\ result = FALSE
         /\ (i = Min(PostIdx) => Cardinality(PostIdx) = 1)

\* a call whose only POST is answered 500, the token left as it was
C6_Witness ==
  /\ Returned("send_metrics")
  /\ result = FALSE
  /\ Cardinality(PostIdx) = 1
  /\ \E i \in PostIdx : log[i].exc = "none" /\ log[i].status_code = 500
  /\ AuthIdx = {}
  /\ pre.current_token = current_token

\* C7: is_token_valid() returns true iff a token exists and expiry - now is
\* strictly greater than the margin of 300 s (false at exactly 300 s and
\* below), and it changes no state.
C7_IsTokenValid ==
  Returned("is_token_valid")
  => /\ result = (current_token # None /\ current_token[1].expires_at - now > 300)
     /\ (current_token # None /\ current_token[1].expires_at - now <= 300
           => result = FALSE)
     /\ Untouched
     /\ log = << >>

\* is_token_valid() asked when exactly 300 s remain
C7_Witness ==
  /\ Returned("is_token_valid")
  /\ current_token # None
  /\ current_token[1].expires_at - now = 300
  /\ result = FALSE

\* C8: one call of refresh_token_if_needed() invokes authenticate() exactly
\* once when no token exists or at most 300 s remain, and not at all when a
\* token with more than 300 s left exists.
C8_RefreshAuthCount ==
  Returned("refresh_token_if_needed")
  => Cardinality(AuthIdx) =
       IF pre.current_token = None
            \/ pre.current_token[1].expires_at - pre.now <= 300
       THEN 1 ELSE 0

\* refresh_token_if_needed() called when exactly 300 s remain
C8_Witness ==
  /\ Returned("refresh_token_if_needed")
  /\ pre.current_token # None
  /\ pre.current_token[1].expires_at - pre.now = 300
  /\ Cardinality(AuthIdx) = 1

\* C9: the value returned by refresh_token_if_needed() equals
\* is_token_valid() evaluated right after it returns.
C9_RefreshReturnsValidity ==
  Returned("refresh_token_if_needed")
  => result = (current_token # None /\ current_token[1].expires_at - now > 300)

\* C10: after authenticate() returns true the current token is made of the
\* values of that login answer only, with expiry = time of login + 8 hours.
C10_TokenReplacedWholesale ==
  (log # << >> /\ log[Len(log)].ev = "authenticate" /\ log[Len(log)].ok)
  => current_token = Some([token |-> log[Len(log)].body.token,
                           expires_at |-> now + 8 * 3600,
                           user_id |-> log[Len(log)].body.id,
                           username |-> log[Len(log)].body.login])

\* a successful authenticate() over a token of another identity
C10_Witness ==
  /\ Returned("authenticate")
  /\ result = TRUE
  /\ pre.current_token # None
  /\ pre.current_token[1].token # current_token[1].token
  /\ pre.current_token[1].user_id # current_token[1].user_id
  /\ pre.current_token[1].username # current_token[1].username
  /\ pre.current_token[1].expires_at # current_token[1].expires_at

\* C11: whenever authenticate() returns false it has raised no exception and
\* the current token and the Authorization header are exactly what they
\* were before the call.
C11_FailedAuthLeavesState ==
  (Returned("authenticate") /\ result = FALSE)
  => /\ current_token = pre.current_token
     /\ auth_header = pre.auth_header

\* positions at which a request carrying the bearer token is about to be sent
RequestPositions ==
  {"post_metrics", "heartbeat_post", "configuration_get", "directories_get"}
GateIdx == {i \in 1..Len(log) : log[i].ev = "refresh_token_if_needed"}
Max(S) == CHOOSE i \in S : \A j \in S : j <= i

\* C12: a metrics POST, heartbeat POST, configuration GET or
\* monitored-directories GET is sent only after a refresh_token_if_needed()
\* call of the same operation returned true, and never while no token
\* exists or the token has at most token_refresh_margin seconds left.
C12_RequestsBehindGate ==
  pc \in RequestPositions
  => /\ GateIdx # {}
     /\ log[Max(GateIdx)].ok
     /\ current_token # None
     /\ current_token[1].expires_at - now > token_refresh_margin

\* a configuration GET about to be sent after the gate has replaced a token
\* that had exactly token_refresh_margin seconds left
C12_Witness ==
  /\ pc = "configuration_get"
  /\ pre.current_token # None
  /\ pre.current_token[1].expires_at - pre.now = token_refresh_margin
  /\ Cardinality(AuthIdx) = 1
  /\ current_token[1].expires_at = now + TokenLifetime

\* C13: when the authenticate() call of start() fails the agent stops at
\* once: that login is the only request made, running is never set to
\* True, and no configuration, heartbeat, directory or metrics request and
\* no loop iteration follows.
C13_FailedStartStops ==
  hist.started = "failed"
  => /\ pc = "exited"
     /\ running = FALSE
     /\ Len(log) = 1
     /\ log[1].ev = "authenticate"
     /\ hist.cycles = 0
     /\ hist.hb_calls = 0
     /\ metrics = << >>

\* start() has returned after a login that was answered 401
C13_Witness ==
  /\ hist.started = "failed"
  /\ pc = "exited"
  /\ log[1].status_code = 401
  /\ current_token = None

\* C14: the process ends with a non-zero exit status when the command line
\* has the wrong number of parameters, when the host id is not an integer,
\* and when the initial authentication fails.
C14_NonZeroExit ==
  (pc = "exited" /\ (argv # "ok" \/ hist.started = "failed"))
  => (exit_status # None /\ exit_status[1] # 0)

\* C15: after a successful initial authentication a configuration pull of
\* start() that fails does not stop the agent: unless a shutdown signal
\* arrives it keeps running, reaches the loop with collection_interval =
\* 120 and the four monitoring flags enabled, and begins its first cycle.
C15_StartsOnDefaults ==
  (hist.start_config = "failed" /\ hist.signal_at = None)
  => /\ pc # "exited"
     /\ running
     /\ hist.cycles = 0 =>
           /\ config.collection_interval = 120
           /\ config.enable_cpu_monitoring
           /\ config.enable_ram_monitoring
           /\ config.enable_disk_monitoring
           /\ config.enable_network_monitoring
           /\ pc = "loop"
           /\ ENABLED LoopTop

\* the first cycle has sent its metrics after the configuration pull of
\* start() was answered 500
C15_Witness ==
  /\ hist.start_config = "failed"
  /\ hist.signal_at = None
  /\ hist.cycles = 1
  /\ pc = "wait_for_next_cycle"
  /\ result = TRUE
  /\ config.collection_interval = 120

\* the loop test has found running true and an iteration begins
IterationBegins == pc = "loop" /\ running /\ pc' # pc

\* C16: a loop iteration attempts a heartbeat exactly when at least 5
\* minutes have passed since last_heartbeat; last_heartbeat changes only
\* when send_heartbeat() has succeeded, and then to the present time; the
\* iteration that follows a failed heartbeat attempts a heartbeat again.
C16_HeartbeatWhenDue ==
  [][/\ IterationBegins
          => (pc' = "send_heartbeat" <=> now - last_heartbeat >= 5 * 60)
     /\ last_heartbeat' # last_heartbeat
          => (pc = "heartbeat_done" /\ result = TRUE /\ last_heartbeat' = now)
     /\ (IterationBegins /\ hist.hb_last = "failed")
          => pc' = "send_heartbeat"]_vars

\* the second iteration calls send_heartbeat() after the heartbeat of the
\* first iteration failed
C16_Witness ==
  /\ pc = "send_heartbeat"
  /\ hist.cycles = 2
  /\ hist.hb_calls = 2
  /\ hist.hb_last = "failed"
  /\ hist.signal_at = None

\* C17: a configuration refresh that is due sets the last-refresh time to
\* the present whether the fetch succeeded or failed (so that a failing
\* endpoint is asked again only after another 10 minutes).
C17_RefreshTimeUpdated ==
  [][(pc = "refresh_config" /\ pc' # pc) => last_config_refresh' = now]_vars

\* the agent runs undisturbed: it has started, every answer so far was the
\* plain success and no shutdown signal has arrived
Nominal ==
  /\ hist.started = "yes"
  /\ Faults = 0
  /\ hist.signal_at = None
  /\ config = DefaultConfig
\* seconds since the loop was entered
RunTime == now - hist.run_start
\* slack, in seconds, of a time given as approximate: the sampling time
\* of the cycle bodies of the window
Approx == 2 * CpuSampleSecs

\* C18 as stated: with collection interval 120 s, heartbeat interval 5
\* minutes and a transport that always succeeds, the first 301 s in the
\* loop contain exactly one heartbeat call, made at about 300 s, and
\* exactly 3 cycles, begun at about 0, 120 and 240 s.
C18_HeartbeatAt300 ==
  (Nominal /\ hist.cycles >= 1 /\ RunTime <= 301)
  => /\ hist.hb_calls <= 1
     /\ hist.hb_calls = 1 => RunTime >= 300 - Approx
     /\ RunTime = 301 => hist.hb_calls = 1
     /\ hist.cycles <= 3
     /\ RunTime = 301 => hist.cycles = 3
     /\ hist.cycle_start - hist.run_start - 120 * (hist.cycles - 1) \in 0..Approx

\* C18, amended: in that run the first 301 s in the loop contain exactly
\* one heartbeat call, made by the first iteration at about 0 s (the agent
\* is constructed with a last_heartbeat 10 minutes in the past), and
\* exactly 3 cycles, begun at about 0, 120 and 240 s.
C18_HeartbeatAtStart ==
  (Nominal /\ hist.cycles >= 1 /\ RunTime <= 301)
  => /\ hist.hb_calls = 1
     /\ hist.hb_last = "ok" => last_heartbeat - hist.run_start \in 0..Approx
     /\ hist.hb_last # "ok" => (hist.cycles = 1 /\ RunTime \in 0..Approx)
     /\ hist.cycles <= 3
     /\ RunTime = 301 => hist.cycles = 3
     /\ hist.cycle_start - hist.run_start - 120 * (hist.cycles - 1) \in 0..Approx

\* 301 s after the loop was entered in an undisturbed run
C18_Witness ==
  /\ Nominal
  /\ RunTime = 301
  /\ hist.cycles = 3
  /\ hist.hb_calls = 1
  /\ last_heartbeat = hist.run_start
  /\ pc = "sleep"

\* a wait has run to its end and the loop test is about to find running true
WaitCompleted == pc = "loop" /\ hist.cycles >= 1 /\ running
\* duration of the body of the iteration begun last
BodySecs == hist.wait_start - hist.cycle_start

\* C19 as stated: the next cycle starts collection_interval seconds after
\* the start of the current one: after a body of d seconds, 0 <= d <
\* interval, the wait lasts interval - d seconds.
C19_IntervalFromCycleStart ==
  (WaitCompleted /\ BodySecs < config.collection_interval)
  => /\ now - hist.cycle_start = config.collection_interval
     /\ now - hist.wait_start = config.collection_interval - BodySecs

\* C19, amended: the next cycle starts collection_interval seconds after
\* the end of the body of the current one: whatever the body took, the
\* wait lasts collection_interval seconds, in steps of one second.
C19_IntervalFromBodyEnd ==
  WaitCompleted
  => /\ total_slept = config.collection_interval
     /\ now - hist.wait_start = config.collection_interval
     /\ now - hist.cycle_start = BodySecs + config.collection_interval

\* the wait of a cycle whose body took 32 s (a heartbeat that timed out,
\* the CPU sampling) has run for the whole 120 s
C19_Witness ==
  /\ WaitCompleted
  /\ hist.cycles = 1
  /\ BodySecs = timeout + CpuSampleSecs
  /\ config.collection_interval = 120
  /\ total_slept = 120
  /\ now - hist.cycle_start = 120 + timeout + CpuSampleSecs

\* a shutdown signal has arrived while the agent was in the wait loop
SignalledInWait == hist.signal_at # None /\ hist.signal_at[1].pc = "sleep"

\* C20: a shutdown signal that arrives during the wait between two cycles
\* ends the wait within at most 1 further second; the agent then stops
\* without sleeping the rest of the interval and without beginning another
\* cycle.
C20_WaitInterrupted ==
  SignalledInWait
  => /\ running = FALSE
     /\ now - hist.signal_at[1].at <= 1
     /\ total_slept - hist.signal_at[1].slept <= 1
     /\ hist.cycles = hist.signal_at[1].cycles
     /\ pc \in {"sleep", "loop", "exited"}
     /\ pc = "sleep" => ENABLED (WaitStep(FALSE) /\ pc' = "loop")
     /\ pc = "loop" => ENABLED (LoopTop /\ pc' = "exited")

\* the agent has stopped after a signal that arrived during the third
\* sleep step of a wait of 120 s
C20_Witness ==
  /\ SignalledInWait
  /\ hist.signal_at[1].slept = 2
  /\ config.collection_interval = 120
  /\ pc = "exited"
  /\ exit_status = Some(0)
  /\ total_slept = 3
  /\ now - hist.signal_at[1].at = 1

\* a shutdown signal has arrived after start() had set running to True
SignalledRunning == hist.signal_at # None /\ hist.signal_at[1].pc # "start"

\* C21: once the shutdown handler has cleared running in the running agent
\* the flag stays cleared and no later iteration (heartbeat, configuration
\* refresh, collection) begins; the step in progress of the iteration is
\* not aborted but taken, the wait and the loop end, and start() returns:
\* the process ends.
C21_ShutdownMovesForward ==
  SignalledRunning
  => /\ running = FALSE
     /\ hist.cycles = hist.signal_at[1].cycles
     /\ pc = "exited" => exit_status = Some(0)
     /\ pc = "loop" => ENABLED (LoopTop /\ pc' = "exited")
     /\ pc = "sleep" => ENABLED (WaitStep(FALSE) /\ pc' = "loop")
     /\ pc \notin {"loop", "sleep", "exited"}
          => ENABLED (AgentNext /\ pc' \notin {pc, "exited"})

\* the iteration in progress has sent its metrics after a shutdown signal
\* that arrived at the call of send_heartbeat() of the second iteration
C21_Witness ==
  /\ SignalledRunning
  /\ hist.signal_at[1].pc = "send_heartbeat"
  /\ hist.signal_at[1].cycles = 2
  /\ pc = "wait_for_next_cycle"
  /\ PostIdx # {}
  /\ result = TRUE

\* an exception was raised in the loop body and no shutdown signal has
\* arrived
RaisedUnsignalled == hist.raised # None /\ hist.signal_at = None

\* C22: an exception raised by a step of the loop body (heartbeat,
\* configuration refresh, collect-and-send) or between the steps does not
\* end the agent: it is caught, the agent stays running, the loop goes on
\* to the wait between cycles, which it sleeps in full, and unless a
\* shutdown signal arrives a further iteration begins.
C22_ExceptionCaught ==
  RaisedUnsignalled
  => /\ pc # "exited"
     /\ running
     /\ exit_status = None
     /\ pc = "loop" => /\ total_slept = config.collection_interval
                       /\ hist.cycles < MaxCycles => ENABLED LoopTop
     /\ pc = "sleep" => ENABLED WaitStep(FALSE)
     /\ pc \notin {"loop", "sleep"}
          => ENABLED (AgentNext /\ pc' \notin {pc, "exited"})

\* the agent is about to wait after an exception that was raised between
\* the heartbeat and the configuration refresh of the first iteration and
\* caught by the loop: no refresh was made, nothing collected or sent
C22_Witness ==
  /\ RaisedUnsignalled
  /\ hist.raised[1].cycles = 1
  /\ hist.cycles = 1
  /\ pc = "wait_for_next_cycle"
  /\ hist.hb_last = "ok"
  /\ hist.refresh_last = "none"
  /\ now = hist.cycle_start
  /\ metrics = << >>
  /\ running

\* the second iteration has begun after an exception raised in the first
C22_NextIteration ==
  /\ RaisedUnsignalled
  /\ hist.raised[1].cycles = 1
  /\ hist.cycles = 2

\* C23: whenever get_agent_configuration() reports unavailable (it
\* returns None: failed token gate, network error, status other than 200),
\* in start() and at a refresh alike, collection_interval and the four
\* flags keep the values they had; they are not reset to the defaults.
C23_UnavailableKeepsConfig ==
  [][(pc \in {"start_config", "refresh_config"} /\ result = None /\ pc' # pc)
       => config' = config]_vars

\* the first iteration collects with the interval of 60 s and the flags
\* loaded by start(), after its configuration refresh was unavailable
C23_Witness ==
  /\ pc = "collect"
  /\ hist.cycles = 1
  /\ hist.refresh_last = "unavailable"
  /\ hist.raised = None
  /\ config.collection_interval = 60
  /\ config # DefaultConfig

\* the remote object {data_collection_interval: 60}
IntervalOnly == Payload(Some(60), None, None, None, None, FALSE)
\* update_from_api(p) is the call made last
Applied(p) ==
  op = "update_from_api" /\ log # << >> /\ log[Len(log)].payload = p
AllEnabled(cfg) ==
  /\ cfg.enable_cpu_monitoring
  /\ cfg.enable_ram_monitoring
  /\ cfg.enable_disk_monitoring
  /\ cfg.enable_network_monitoring

\* C24 as stated: applying {data_collection_interval: 60} with the flags
\* omitted gives collection_interval = 60 and the four flags true, and
\* returns true exactly when the interval before was not 60, for every
\* configuration before the call.
C24_ChangedIffIntervalDiffers ==
  Applied(IntervalOnly)
  => /\ config.collection_interval = 60
     /\ AllEnabled(config)
     /\ result <=> pre.config.collection_interval # 60

\* C24, amended: applying {data_collection_interval: 60} with the flags
\* omitted gives collection_interval = 60 and the four flags true, and
\* returns true exactly when the interval before was not 60 or one of the
\* four flags was false before.
C24_ChangedIffIntervalOrFlagDiffers ==
  Applied(IntervalOnly)
  => /\ config.collection_interval = 60
     /\ AllEnabled(config)
     /\ result <=> (pre.config.collection_interval # 60
                      \/ ~AllEnabled(pre.config))

\* the object applied to a configuration with interval 60 and disk
\* monitoring disabled: the flag is enabled again and true is returned
C24_Witness ==
  /\ Applied(IntervalOnly)
  /\ pre.config.collection_interval = 60
  /\ ~pre.config.enable_disk_monitoring
  /\ config.enable_disk_monitoring
  /\ result = TRUE

\* C25: update_from_api returns true exactly when one of the five fields
\* differs after the call from its value before; so applying the same
\* object a second time in a row changes nothing and returns false.
C25_ChangedIffAnyFieldDiffers ==
  op = "update_from_api"
  => /\ result <=> (\E f \in DOMAIN config : config[f] # pre.config[f])
     /\ (/\ Len(log) >= 2
         /\ log[Len(log) - 1].ev = "update_from_api"
         /\ log[Len(log)].payload = log[Len(log) - 1].payload)
          => (result = FALSE /\ config = pre.config)

\* an object that disables two flags, applied twice in a row
C25_Witness ==
  /\ op = "update_from_api"
  /\ Len(log) = 2
  /\ log[1].ev = "update_from_api"
  /\ log[1].payload = log[2].payload
  /\ ~config.enable_disk_monitoring
  /\ ~config.enable_network_monitoring
  /\ result = FALSE

\* a call that changed a flag only
C25_FlagOnly ==
  /\ op = "update_from_api"
  /\ result = TRUE
  /\ config.collection_interval = pre.config.collection_interval

\* the storage records of the batch collect_all_metrics() returned last
StorageIds == SubSeq(metrics, log[1].local + 1, Len(metrics))
\* positions of the enumerated list whose directory gave a record
Recorded == {k \in 1..Len(log[1].directories) :
                log[1].directories[k] \in log[1].existing}

\* C26: the records of a batch of collect_all_metrics have pairwise distinct
\* metric_type_id: the CPU, RAM and network records have 1, 2 and 3 and
\* every storage record has an id of at least 4 that no other record has,
\* also for lists with missing, unreadable or duplicated directories.
C26_DistinctMetricTypeIds ==
  op = "collect_all_metrics"
  => /\ \A i, j \in 1..Len(metrics) : i # j => metrics[i] # metrics[j]
     /\ \A i \in 1..log[1].local : metrics[i] \in {1, 2, 3}
     /\ \A i \in 1..Len(StorageIds) : StorageIds[i] >= 4

\* a batch with the three local records and two records of a list that
\* names one directory twice
C26_Witness ==
  /\ op = "collect_all_metrics"
  /\ log[1].directories = <<"/var", "/var">>
  /\ metrics = <<1, 2, 3, 4, 5>>

\* C27 as stated: the N storage records have the ids 4, 5, ..., 4 + N - 1,
\* also when enumerated directories do not exist or cannot be read.
C27_ContiguousStorageIds ==
  op = "collect_all_metrics"
  => \A n \in 1..Len(StorageIds) : StorageIds[n] = 4 + (n - 1)

\* C27, amended: a storage record has the id 4 + i, i the zero-based
\* position of its directory in the enumerated list, and the records are
\* in the order of that list; so the N ids are 4, ..., 4 + N - 1 when every
\* enumerated directory gave a record, and the id of a directory that gave
\* none is left out otherwise.
C27_StorageIdsByPosition ==
  (op = "collect_all_metrics" /\ config.enable_disk_monitoring)
  => /\ Len(StorageIds) = Cardinality(Recorded)
     /\ {StorageIds[n] : n \in 1..Len(StorageIds)}
          = {4 + (k - 1) : k \in Recorded}
     /\ \A m, n \in 1..Len(StorageIds) :
           m < n => StorageIds[m] < StorageIds[n]
     /\ (\A k \in 1..Len(log[1].directories) : k \in Recorded)
          => \A n \in 1..Len(StorageIds) : StorageIds[n] = 4 + (n - 1)

\* the fallback list on a host where only /var and /usr give a record: the
\* two storage records have the ids 5 and 8
C27_Witness ==
  /\ op = "collect_all_metrics"
  /\ log[1].directories = fallback_directories
  /\ log[1].existing = {"/var", "/usr"}
  /\ StorageIds = <<5, 8>>

\* three enumerated directories that all give a record: ids 4, 5, 6
C27_ThreeVolumes ==
  /\ op = "collect_all_metrics"
  /\ Len(log[1].directories) = 3
  /\ StorageIds = <<4, 5, 6>>

\* the flag that gates the collector of the record with metric_type_id id
flag(cfg, id) ==
  CASE id = 1 -> cfg.enable_cpu_monitoring
    [] id = 2 -> cfg.enable_ram_monitoring
    [] id = 3 -> cfg.enable_network_monitoring
    [] OTHER -> cfg.enable_disk_monitoring
\* the step is collect_all_metrics() up to the call of the storage
\* collector, not an exception raised in it
CollectStep ==
  pc = "collect" /\ pc' \in {"get_monitored_directories", "collected"}
\* the step is "if metrics:" of _collect_and_send_metrics(), not an
\* exception raised there
SendCollectedStep == pc = "collected" /\ pc' # pc /\ hist' = hist

\* C28: in each cycle a category whose flag is false gives no record and
\* its collector is not called; send_metrics is called exactly when the
\* batch is not empty, so with the four flags false no metrics POST is made
\* and the cycle goes on to its wait.
C28_DisabledNotCollected ==
  [][/\ CollectStep
        => /\ \A id \in 1..4 : ~flag(config, id) => id \notin hist'.invoked
           /\ ~config.enable_cpu_monitoring => now' = now
           /\ ~config.enable_disk_monitoring => pc' = "collected"
     /\ \A n \in 1..Len(metrics') : flag(config', metrics'[n])
     /\ SendCollectedStep
        => /\ pc' = "send_metrics" <=> metrics # << >>
           /\ metrics = << >>
                => /\ pc' = "wait_for_next_cycle"
                   /\ log' = << >>
                   /\ running' = running
                   /\ exit_status' = None
     /\ (pc' = "wait_for_next_cycle"
           /\ \E i \in 1..Len(log') : log'[i].ev = "post_metrics")
        => metrics' # << >>
    ]_vars

\* the second iteration of an agent with the four flags false, at its wait
\* with an empty batch and no request made
C28_Witness ==
  /\ pc = "wait_for_next_cycle"
  /\ collectors_invoked(config) = {}
  /\ hist.invoked = {}
  /\ metrics = << >>
  /\ log = << >>
  /\ hist.raised = None
  /\ hist.cycles = 2
  /\ running

\* a batch without the CPU record, sent by an agent whose CPU flag is false
C28_PartlyDisabled ==
  /\ pc = "wait_for_next_cycle"
  /\ ~config.enable_disk_monitoring
  /\ config.enable_cpu_monitoring
  /\ metrics = <<1, 2>>
  /\ PostIdx # {}

\* the heartbeat POSTs recorded in l
HeartbeatPosts(l) == {i \in 1..Len(l) : l[i].ev = "post_heartbeat"}

\* C29: one call of send_heartbeat() makes at most one heartbeat POST; on a
\* status that is not 2xx (401 included) or a network failure the call
\* returns False after that POST, with no further request, no login and
\* the current token and header as they were.
C29_HeartbeatNoRetry ==
  [][/\ pc = "heartbeat_post"
        => /\ pc' = ret_pc
           /\ current_token' = current_token
           /\ auth_header' = auth_header
           /\ Len(log') = Len(log) + 1
           /\ log'[Len(log')].ev = "post_heartbeat"
           /\ (\/ log'[Len(log')].exc # "none"
               \/ log'[Len(log')].status_code \notin 200..299)
                => result' = FALSE
     /\ Cardinality(HeartbeatPosts(log')) <= 1
    ]_vars

\* a call of send_heartbeat() with a valid token that was answered 401 and
\* has returned False
C29_Witness ==
  /\ op = "send_heartbeat"
  /\ pc = "idle"
  /\ result = FALSE
  /\ current_token # None
  /\ is_token_valid(current_token, now)
  /\ HeartbeatPosts(log) # {}
  /\ log[Len(log)].status_code = 401

\* the message m has the string s as a part
Contains(m, s) ==
  \E o \in 0..(Len(m) - Len(s)) : SubSeq(m, o + 1, o + Len(s)) = s
\* the characters of s
Chars(s) == {s[i] : i \in 1..Len(s)}

\* C30: no log message contains the complete bearer token, whatever the
\* length of the token (30 characters or fewer included): a part of the
\* token is in no message.
C30_TokenNeverLoggedWhole ==
  \A i \in 1..Len(log) :
     /\ ~Contains(log[i].message, current_token[1].token)
     /\ ~(Chars(current_token[1].token) \subseteq Chars(log[i].message))

\* what the three log lines keep back: the characters of a token of more
\* than token_head + token_tail characters that are between its first
\* token_head and its last token_tail
C30_LongTokenCut ==
  Len(current_token[1].token) > token_head + token_tail
  => \A i \in 1..Len(log) :
        /\ ~Contains(log[i].message, current_token[1].token)
        /\ token_head + 1 \notin Chars(log[i].message)

\* C31: a shutdown signal delivered at any moment after the agent is
\* constructed, the initial authentication of start() included, is not
\* lost: from then on running is false and no further iteration begins,
\* so the loop ends at its next test.
C31_SignalNeverLost ==
  hist.signal_at # None
  => /\ running = FALSE
     /\ hist.cycles = hist.signal_at[1].cycles

\* the object p has none of the five configuration keys
AllOmitted(p) ==
  \A k \in DOMAIN p \ {"other"} : p[k] = None
\* the object fetched last with status 200 is p
Fetched(p) ==
  op = "refresh_config" /\ log # << >> /\ log[Len(log)].payload = p

\* C32: a configuration fetch answered 200 with an object in which the
\* five optional fields are omitted is applied like any other:
\* collection_interval becomes 120 and the four flags become enabled,
\* whatever they were before.
C32_AllOmittedApplied ==
  \A p \in FetchedObjects :
     (Fetched(p) /\ AllOmitted(p))
     => /\ config.collection_interval = 120
        /\ AllEnabled(config)

\* what holds of such a fetch: an object with some other key is applied
\* with the defaults, the empty object leaves the configuration as it was
C32_EmptyObjectSkipped ==
  /\ Fetched(OtherKeysOnly)
       => config.collection_interval = 120 /\ AllEnabled(config)
  /\ Fetched(Payload(None, None, None, None, None, FALSE))
       => config = pre.config

\* the five fields as the remote object p gives them, an omitted field at
\* its default
Reflects(p) ==
  [collection_interval |->
     IF p.data_collection_interval = None THEN 120
     ELSE p.data_collection_interval[1],
   enable_cpu_monitoring |->
     p.enable_cpu_monitoring = None \/ p.enable_cpu_monitoring = Some(TRUE),
   enable_ram_monitoring |->
     p.enable_ram_monitoring = None \/ p.enable_ram_monitoring = Some(TRUE),
   enable_disk_monitoring |->
     p.enable_disk_monitoring = None \/ p.enable_disk_monitoring = Some(TRUE),
   enable_network_monitoring |->
     p.enable_network_monitoring = None
       \/ p.enable_network_monitoring = Some(TRUE)]
\* the positions of collect_all_metrics() and of its storage collector
CollectPositions ==
  {"collect", "get_monitored_directories", "directories_get",
   "directories_done", "collected"}

\* C33: a configuration update is all or nothing as the loop sees it: a
\* step that changes the configuration is the step after a fetch and
\* leaves the five fields as the fetched object gives them (defaults for
\* the omitted ones), every other step leaves the five fields as they
\* were; no step of the collection changes them.
C33_UpdateAllOrNothing ==
  [][/\ config' # config
        => /\ pc \in {"start_config", "refresh_config"}
           /\ result # None
           /\ config' = Reflects(result[1])
     /\ pc \in CollectPositions => config' = config
    ]_vars

\* the collection of the first iteration begins after the refresh has
\* replaced a configuration with two categories disabled by the object
\* {data_collection_interval: 60}
C33_Witness ==
  /\ pc = "collect"
  /\ hist.cycles = 1
  /\ hist.start_config = "loaded"
  /\ hist.refresh_last = "loaded"
  /\ hist.served = Some(IntervalOnly)
  /\ hist.faults = 1
  /\ hist.hb_last = "ok"
  /\ current_token # None
  /\ current_token[1].token = "tokA"
  /\ config = Reflects(IntervalOnly)

\* the step of the loop body that position p belongs to: 1 heartbeat
\* check, 2 configuration refresh, 3 metric collection, 4 metric send,
\* 5 wait; 0 outside the body
StepOf(p) ==
  CASE p \in {"send_heartbeat", "heartbeat_post", "heartbeat_done"} -> 1
    [] p \in {"refresh_check", "get_agent_configuration", "configuration_get",
              "refresh_config"} -> 2
    [] p \in CollectPositions \ {"collected"} -> 3
    [] p \in {"collected", "send_metrics", "post_metrics", "reauth"} -> 4
    [] p \in {"wait_for_next_cycle", "sleep"} -> 5
    [] OTHER -> 0

\* C34: within one iteration the steps run in the order heartbeat check,
\* configuration refresh, collection, send, wait: no step of the body goes
\* back to an earlier one, the body is left only from the wait, and an
\* iteration begins with the heartbeat check.  Hence the collection uses
\* the flags as the refresh of the same iteration left them and the wait
\* that is not cut by a signal lasts the collection_interval it left.
C34_StepsInOrder ==
  [][/\ (hist.cycles >= 1 /\ pc \notin {"loop", "exited"})
        => \/ StepOf(pc') >= StepOf(pc) /\ pc' # "exited"
           \/ pc = "sleep" /\ pc' = "loop"
     /\ (pc = "loop" /\ pc' # pc)
        => pc' \in {"send_heartbeat", "refresh_check", "exited"}
     /\ CollectStep => hist'.invoked = collectors_invoked(config)
     /\ (pc = "sleep" /\ pc' = "loop" /\ running)
        => total_slept = config.collection_interval
    ]_vars

\* the first iteration has ended after a wait of 60 s: its refresh got
\* the object {data_collection_interval: 60} in place of the
\* configuration loaded by start()
C34_Witness ==
  /\ pc = "loop"
  /\ hist.cycles = 1
  /\ hist.start_config = "loaded"
  /\ hist.refresh_last = "loaded"
  /\ hist.served = Some(IntervalOnly)
  /\ hist.faults = 1
  /\ hist.raised = None
  /\ running
  /\ config = Reflects(IntervalOnly)
  /\ total_slept = 60
  /\ now - hist.wait_start = 60

\* the exchanges with the remote service recorded in l
RemoteEvents(l) ==
  {i \in 1..Len(l) : l[i].ev \notin {"refresh_token_if_needed", "raise"}}
\* every exchange of the operation in progress or just ended has succeeded
AllRemoteSucceeded == \A i \in RemoteEvents(log) : log[i].ok

\* C35: the agent recovers from any earlier sequence of failures once the
\* remote calls succeed: a send_metrics() with a non-empty batch or a
\* send_heartbeat() during which no remote call fails ends in success,
\* whatever the calls before it left behind.
C35_RecoversOnceRemoteSucceeds ==
  (/\ pc = "idle"
   /\ op \in {"send_metrics", "send_heartbeat"}
   /\ op = "send_metrics" => metrics # << >>
   /\ AllRemoteSucceeded)
  => result = TRUE

\* what holds: such a call ends in success unless the token gate raised
C35_RecoversUnlessGateRaises ==
  (/\ pc = "idle"
   /\ op \in {"send_metrics", "send_heartbeat"}
   /\ op = "send_metrics" => metrics # << >>
   /\ AllRemoteSucceeded
   /\ \A i \in 1..Len(log) : log[i].ev # "raise")
  => result = TRUE

\* C36: whenever a request is issued and after every authenticate() call
\* the Authorization header of the session is present exactly when a
\* current token exists, and is then "Bearer " followed by the string of
\* the current token.
C36_HeaderIsBearerToken ==
  /\ current_token = None <=> auth_header = None
  /\ current_token # None
       => auth_header = <<"Bearer", current_token[1].token>>

\* what holds: the header is present exactly when a token exists and is
\* "Bearer " followed by the token value as an f-string formats it, which
\* is the text None for a token that is null
C36_HeaderFormatsToken ==
  /\ current_token = None <=> auth_header = None
  /\ current_token # None
       => auth_header = <<"Bearer", Str(current_token[1].token)>>

\* C37: collection_interval is a positive number of seconds in every
\* reachable state, whatever remote object has been applied, so that each
\* wait between two cycles has at least one sleep step.
C37_IntervalPositive ==
  /\ config.collection_interval > 0
  /\ keep_waiting(0, config.collection_interval, TRUE)

\* what holds: the interval is the one the object applied last gives, or
\* 120 if it gives none; it is positive if that one is
C37_IntervalAsFetched ==
  \A p \in FetchedObjects :
     (log # << >> /\ log[Len(log)].payload = p /\ config # pre.config)
     => config.collection_interval = Reflects(p).collection_interval

\* C38: two consecutive configuration fetches that both succeed, the
\* initial pull of start() counted, are at least config_refresh_interval
\* (10 minutes) apart.
C38_FetchesSpaced ==
  (hist.fetch # None /\ hist.fetch[1].gap # None)
  => hist.fetch[1].gap[1] >= config_refresh_interval

\* what holds: a successful refresh of the loop that follows a successful
\* refresh of the loop (one that got a non-empty object) is at least
\* config_refresh_interval later; the first refresh of the loop follows
\* the pull of start() at once
C38_FirstRefreshAtOnce ==
  (/\ hist.fetch # None
   /\ hist.fetch[1].gap # None
   /\ hist.cycles = 1
   /\ hist.start_config = "loaded"
   /\ hist.hb_last = "ok")
  => hist.fetch[1].gap[1] < config_refresh_interval

\* ------------------------------------------------ v1 agent: retry of the send
\* a v1 send_metrics call whose list holds a known metric has returned
V1Returned ==
  /\ pc = "idle"
  /\ op = "send_metrics"
  /\ api_metrics(metrics) # << >>

V1Posts == {i \in 1..Len(log) : log[i].ev = "post_metrics"}

\* the POST at log position i was answered with status 201
Answered201(i) == log[i].exc = "none" /\ log[i].status_code = 201
\* ... and its body was a JSON object
Parsed201(i) == Answered201(i) /\ log[i].shape = "object"

\* seconds the exchanges and sleeps of l took
RECURSIVE V1Elapsed(_)
V1Elapsed(l) == IF l = << >> THEN 0 ELSE Head(l).secs + V1Elapsed(Tail(l))

\* the retry contract of one call, where Succeeds(i) says that the attempt
\* at log position i counts as sent: at most max_retries POSTs; the first
\* attempt that succeeds ends the call with True; False comes only after
\* max_retries attempts none of which succeeded; every POST but the last is
\* followed by one sleep of retry_delay and the last by none
V1Contract(Succeeds(_)) ==
  /\ op = "send_metrics" => Cardinality(V1Posts) <= max_retries
  /\ V1Returned =>
       /\ V1Posts # {}
       /\ log[Len(log)].ev = "post_metrics"
       /\ \A i \in V1Posts : Succeeds(i) => i = Len(log)
       /\ result = Succeeds(Len(log))
       /\ ~result => Cardinality(V1Posts) = max_retries
       /\ \A i \in V1Posts :
            i < Len(log) => /\ log[i + 1] = V1SleepEvent(retry_delay)
                            /\ i + 2 \in V1Posts
       /\ now - pre.now = V1Elapsed(log)

\* C39: in the v1 agent one send_metrics call with at least one known metric
\* makes at most max_retries (3) POST attempts, returns true at the first
\* attempt answered 201 without a further attempt, returns false after
\* max_retries failed attempts, and sleeps retry_delay between attempts but
\* not after the last one
C39_RetriesUntil201 == V1Contract(Answered201)

\* what holds: the same contract when an attempt counts as sent only if it
\* was answered 201 with a body that parses to a JSON object
C39_RetriesUntilParsed201 == V1Contract(Parsed201)

\* a call that got three answers of status 201 and returned False
C39_Resent ==
  /\ V1Returned
  /\ ~result
  /\ Cardinality({i \in V1Posts : Answered201(i)}) = max_retries
  /\ now - pre.now = (max_retries - 1) * retry_delay

====
